---- MODULE Spec2Model ----
(***************************************************************************)
(* Storefront pricing / cart / checkout logic.                             *)
(*                                                                         *)
(*   ProductDetail page  : option parsing, effective price, add-to-cart    *)
(*   Cart / Checkout page: cart total, coupon, order composition           *)
(*   Store (Postgres)    : tables, unique index on cart_items, row-level   *)
(*                         security policies                               *)
(*                                                                         *)
(* Money is counted in paise (1/100 rupee), so DECIMAL(10,2) columns and   *)
(* integer percentages of whole-rupee prices are exact integers.           *)
(***************************************************************************)
EXTENDS Integers, Sequences, FiniteSets, TLC

(***************************************************************************)
(* Bounds of the model.                                                    *)
(***************************************************************************)
\* largest quantity a cart line may reach in the model
MaxQty == 2
\* number of cart_items rows ever inserted (row ids 1..MaxCartRows)
MaxCartRows == 2
\* number of orders ever inserted
MaxOrders == 1
\* last instant of the model clock
MaxTime == 2
\* longest raw option list given to the parsers
MaxLen == 2

(***************************************************************************)
(* JavaScript / JSON / SQL values.                                         *)
(* A number-like value is a tagged record so that null, undefined, NaN and *)
(* numeric strings stay distinguishable from numbers.                      *)
(***************************************************************************)
\* null of a string-valued column or field
NULL == "NULL"
Null == [t |-> "null", v |-> 0, s |-> ""]
Undefined == [t |-> "undefined", v |-> 0, s |-> ""]
NaN == [t |-> "nan", v |-> 0, s |-> ""]
Num(n) == [t |-> "num", v |-> n, s |-> ""]
Str(x) == [t |-> "str", v |-> 0, s |-> x]

\* typeof x === 'number'  (NaN is a number)
TypeofNumber(x) == x.t \in {"num", "nan"}
\* x ?? d
Coalesce(x, d) == IF x.t \in {"null", "undefined"} THEN d ELSE x
\* truthiness of a value in a condition
Truthy(x) ==
  CASE x.t = "num" -> x.v # 0
    [] x.t = "str" -> x.s # ""
    [] OTHER -> FALSE
\* a + b on number values
Plus(a, b) == IF a.t = "nan" \/ b.t = "nan" THEN NaN ELSE Num(a.v + b.v)
\* JSON.stringify of a field value sent to the store: NaN and undefined
\* do not survive serialisation of an object property set to them
ToJson(x) == IF x.t \in {"nan", "undefined"} THEN Null ELSE x

\* parseFloat / Number on the numeric strings of the model (paise)
NumericText == [s \in {"5000", "0"} |-> IF s = "5000" THEN 5000 ELSE 0]
ParseFloat(s) == IF s \in DOMAIN NumericText THEN Num(NumericText[s]) ELSE NaN
\* Number(x) for a JSON value x
ToNumber(x) ==
  CASE x.t = "num" -> x
    [] x.t = "str" -> IF x.s = "" THEN Num(0) ELSE ParseFloat(x.s)
    [] x.t = "null" -> Num(0)
    [] OTHER -> NaN

(***************************************************************************)
(* Options.  A parsed option is {label, image_url?, price?}; an absent     *)
(* field is Undefined / NULL.  NoOption stands for a null selection.       *)
(***************************************************************************)
Option(l, img, p) == [label |-> l, image_url |-> img, price |-> p]
NoOption == Option(NULL, NULL, Undefined)

\* s.trim(), s.startsWith(w), s.includes(w); the white space of the model's
\* texts is the space character
RECURSIVE TrimStart(_)
TrimStart(s) ==
  IF Len(s) > 0 /\ SubSeq(s, 1, 1) = " " THEN TrimStart(SubSeq(s, 2, Len(s))) ELSE s
RECURSIVE TrimEnd(_)
TrimEnd(s) ==
  IF Len(s) > 0 /\ SubSeq(s, Len(s), Len(s)) = " "
  THEN TrimEnd(SubSeq(s, 1, Len(s) - 1)) ELSE s
Trim(s) == TrimEnd(TrimStart(s))
StartsWith(s, w) == Len(s) >= Len(w) /\ SubSeq(s, 1, Len(w)) = w
Includes(s, w) == \E i \in 1..(Len(s) - Len(w) + 1) : SubSeq(s, i, i + Len(w) - 1) = w

\* JSON text of a value and of the object {label: l, price: p}; a property
\* that is undefined is left out
JsonValueText(x) ==
  CASE x.t = "num" -> ToString(x.v)
    [] x.t = "str" -> "\"" \o x.s \o "\""
    [] OTHER -> "null"
JsonText(l, p) ==
  "{\"label\":\"" \o l \o "\""
    \o (IF p = Undefined THEN "" ELSE ",\"price\":" \o JsonValueText(p)) \o "}"
\* the labels and prices of the JSON objects of the model
JsonLabels == {"", "1L", "2L", "M", " M "}
JsonPrices == {Undefined, Null, Num(0), Num(5000), Str("5000"), Str("n/a")}
\* a JSON array that mentions the word label
JsonArrayText == "[\"label\"]"
\* JSON.parse(s): the object or array the text denotes; any other text of the
\* model is not JSON and makes JSON.parse throw (ok = FALSE)
JsonParse(s) ==
  IF \E l \in JsonLabels, p \in JsonPrices : JsonText(l, p) = s
  THEN LET o == CHOOSE o \in JsonLabels \X JsonPrices : JsonText(o[1], o[2]) = s
       IN  [ok |-> TRUE, label |-> o[1], price |-> o[2]]
  ELSE IF s = JsonArrayText
  THEN [ok |-> TRUE, label |-> "", price |-> Undefined]
  ELSE [ok |-> FALSE, label |-> "", price |-> Undefined]

\* raw entries of products.variant_values (JSONB) and
\* products.measurement_values (TEXT[])
RawNull ==
  [kind |-> "null", text |-> NULL, label |-> NULL, image_url |-> NULL,
   price |-> Undefined]
\* a string
RawText(s) ==
  [kind |-> "text", text |-> s, label |-> NULL, image_url |-> NULL,
   price |-> Undefined]
\* a JSON object value
RawObj(l, img, p) ==
  [kind |-> "obj", text |-> NULL, label |-> l, image_url |-> img, price |-> p]
\* a string holding the JSON text of an object with a label
RawJson(l, p) == RawText(JsonText(l, p))

\* .filter(Boolean) on a mapped option list: drop the nulls
FilterBoolean(mapped) == SelectSeq(mapped, LAMBDA o : o # NoOption)

\* what a parser hands back when an exception leaves it
Thrown == Option(NULL, NULL, NaN)

\* one entry of parseVariantOptions
parseVariantOption(value) ==
  CASE value.kind = "null" -> NoOption
    [] value.kind = "text" ->
         LET label == Trim(value.text)
         IN  IF label = "" THEN NoOption ELSE Option(label, NULL, Undefined)
    [] OTHER ->
         LET label == IF value.label = NULL THEN "" ELSE Trim(value.label)
         IN  IF label = "" THEN NoOption
             ELSE LET image_url == IF value.image_url \notin {"", NULL}
                                   THEN value.image_url ELSE NULL
                      price == CASE TypeofNumber(value.price) -> value.price
                                 [] value.price.t = "str" /\ value.price.s # "" ->
                                      ParseFloat(value.price.s)
                                 [] OTHER -> Null
                  IN  IF price # Null /\ price.t # "nan"
                      THEN Option(label, image_url, price)
                      ELSE Option(label, image_url, Undefined)

parseVariantOptions(values) ==
  FilterBoolean([i \in 1..Len(values) |-> parseVariantOption(values[i])])

\* one entry of the measurementValues memo with JSON.parse outside any try
parseMeasurementValue_NoCatch(v) ==
  CASE v.kind = "null" -> NoOption
    [] v.kind = "text" ->
         LET trimmed == Trim(v.text)
             parsed == JsonParse(trimmed)
         IN  IF trimmed = "" THEN NoOption
             ELSE IF (StartsWith(trimmed, "{") \/ StartsWith(trimmed, "["))
                     /\ Includes(trimmed, "label")
             THEN IF ~parsed.ok THEN Thrown
                  ELSE IF parsed.label = "" THEN Option(trimmed, NULL, Undefined)
                  ELSE IF Truthy(parsed.price)
                  THEN Option(parsed.label, NULL, ToNumber(parsed.price))
                  ELSE Option(parsed.label, NULL, Undefined)
             ELSE Option(trimmed, NULL, Undefined)
    [] OTHER ->
         IF v.label \in {"", NULL} THEN NoOption
         ELSE LET price == CASE TypeofNumber(v.price) -> v.price
                             [] v.price.t = "str" /\ v.price.s # "" ->
                                  ParseFloat(v.price.s)
                             [] OTHER -> Undefined
              IN  IF price # Undefined /\ price.t # "nan"
                  THEN Option(v.label, NULL, price)
                  ELSE Option(v.label, NULL, Undefined)

\* one entry of the measurementValues memo
parseMeasurementValue(v) ==
  CASE v.kind = "null" -> NoOption
    [] v.kind = "text" ->
         LET trimmed == Trim(v.text)
             parsed == JsonParse(trimmed)
         IN  IF trimmed = "" THEN NoOption
             ELSE IF (StartsWith(trimmed, "{") \/ StartsWith(trimmed, "["))
                     /\ Includes(trimmed, "label")
                     \* try { JSON.parse } catch {}: a text that does not
                     \* parse, or parses to something without a truthy label,
                     \* falls through to the raw label
                     /\ parsed.ok /\ parsed.label # ""
             THEN IF Truthy(parsed.price)
                  THEN Option(parsed.label, NULL, ToNumber(parsed.price))
                  ELSE Option(parsed.label, NULL, Undefined)
             ELSE Option(trimmed, NULL, Undefined)
    [] OTHER ->
         IF v.label \in {"", NULL} THEN NoOption
         ELSE LET price == CASE TypeofNumber(v.price) -> v.price
                             [] v.price.t = "str" /\ v.price.s # "" ->
                                  ParseFloat(v.price.s)
                             [] OTHER -> Undefined
              IN  IF price # Undefined /\ price.t # "nan"
                  THEN Option(v.label, NULL, price)
                  ELSE Option(v.label, NULL, Undefined)

measurementValues(values) ==
  FilterBoolean([i \in 1..Len(values) |-> parseMeasurementValue(values[i])])

(***************************************************************************)
(* Catalog.                                                                *)
(***************************************************************************)
Tabs == {"t1", "t2"}
ProductIds == {"p1", "p2"}

Product(name, price, offer, active, ve, vvals, me, mtitle, mvals) ==
  [name |-> name, price_per_litre |-> Num(price), offer_price_per_litre |-> offer,
   is_active |-> active, variant_enabled |-> ve, variant_values |-> vvals,
   measurement_enabled |-> me, measurement_title |-> mtitle,
   measurement_values |-> mvals]
\* the product query has no data (still loading, or the row is not visible)
NoProduct == Product(NULL, 0, Null, FALSE, FALSE, <<>>, FALSE, NULL, <<>>)

\* option lists an admin may save on product p2
VariantLists ==
  { << RawObj("Red", "red.png", Num(10000)), RawObj("Blue", NULL, Null) >>,
    << RawObj("Red", "red.png", Num(12000)), RawObj("Free", NULL, Num(0)) >>,
    << RawObj("Red", NULL, Str("5000")), RawText("Blue"), RawNull >> }
MeasurementLists ==
  { << RawJson("1L", Num(5000)), RawText("2L") >>,
    << RawJson("1L", Num(0)), RawJson("2L", Str("n/a")) >> }

\* the rows an admin may save for a product: p1 is sold without options,
\* p2 with a variant and a measurement choice
ProductVersions(p) ==
  IF p = "p1"
  THEN { Product("Oil", 30000, offer, active, FALSE, <<>>, FALSE, NULL, <<>>) :
           offer \in {Null, Num(25000)}, active \in BOOLEAN }
  ELSE { Product(name, 20000, offer, TRUE, ve, vv, TRUE, "Size", mv) :
           name \in {"Ghee", "Ghee Gold"}, offer \in {Null, Num(0), Num(15000)},
           ve \in BOOLEAN, vv \in VariantLists, mv \in MeasurementLists }
\* the rows the catalog starts with
InitialProducts ==
  [p \in ProductIds |->
     IF p = "p1"
     THEN Product("Oil", 30000, Num(25000), TRUE, FALSE, <<>>, FALSE, NULL, <<>>)
     ELSE Product("Ghee", 20000, Num(15000), TRUE, TRUE,
                  << RawObj("Red", "red.png", Num(10000)), RawObj("Blue", NULL, Null) >>,
                  TRUE, "Size", << RawJson("1L", Num(5000)), RawText("2L") >>)]

(***************************************************************************)
(* State.                                                                  *)
(***************************************************************************)
VARIABLES
  products,     \* table products: product id -> row
  cart_items,   \* table cart_items: set of rows
  orders,       \* table orders: set of rows
  order_items,  \* table order_items: set of rows
  coupons,      \* table coupons: code -> row
  now,          \* the clock
  user,         \* tab -> signed-in user
  reviews,      \* table reviews: set of rows
  wishlist,     \* table wishlist: set of rows
  card,         \* tab -> state of the product card shown in it
  page,         \* tab -> state of the ProductDetail page shown in it
  cartData,     \* tab -> data of the ['cart', user.id] query (Cart and Checkout)
  checkout,     \* tab -> state of the Checkout page
  toast,        \* tab -> last toast shown
  resp,         \* tab -> what the store answered to the tab's last write
  cartSeq,      \* number of cart_items rows inserted so far (row ids)
  added         \* history: per line key, the total quantity of the
                \* add-to-cart operations the store accepted for it

storeVars == <<products, cart_items, orders, order_items, coupons, now, cartSeq>>
vars == <<products, cart_items, orders, order_items, coupons, now, cartSeq,
          user, reviews, wishlist, card, page, cartData, checkout, toast, resp,
          added>>

(***************************************************************************)
(* ProductDetail page.                                                     *)
(***************************************************************************)
hasVariants(product) ==
  product.variant_enabled /\ Len(parseVariantOptions(product.variant_values)) > 0
hasMeasurements(product) ==
  product.measurement_enabled /\ Len(measurementValues(product.measurement_values)) > 0

\* state of a freshly mounted page for product id: useState initial values
MountedPage(id) ==
  [id |-> id, product |-> NoProduct, selectedVariant |-> NoOption,
   selectedMeasurement |-> NoOption, quantity |-> 1,
   pc |-> "idle", existing |-> {}]

\* the selection effects that run after the product query delivered `next`
\* while the page showed `prev`: the reset effect (deps [product]) clears both
\* selections; the default effects (deps [hasVariants, variantOptions] and
\* [hasMeasurements, measurementValues]) run only when one of their
\* dependencies changed, and then pick the first option
AfterProductLoaded(pg, next) ==
  LET prev == pg.product
      vChanged == hasVariants(prev) # hasVariants(next)
                  \/ prev.variant_values # next.variant_values
      mChanged == hasMeasurements(prev) # hasMeasurements(next)
                  \/ prev.measurement_values # next.measurement_values
  IN  [pg EXCEPT
        !.product = next,
        !.selectedVariant =
           IF vChanged /\ hasVariants(next)
           THEN Head(parseVariantOptions(next.variant_values)) ELSE NoOption,
        !.selectedMeasurement =
           IF mChanged /\ hasMeasurements(next)
           THEN Head(measurementValues(next.measurement_values)) ELSE NoOption]

\* the products row as the policy "Everyone can view active products" shows it
\* to a customer
VisibleProduct(p) == IF products[p].is_active THEN products[p] ELSE NoProduct

\* navigate to /product/p: the page mounts and its product query loads the row
OpenProduct(t, p) ==
  /\ VisibleProduct(p) # NoProduct
  /\ page' = [page EXCEPT ![t] = AfterProductLoaded(MountedPage(p), VisibleProduct(p))]
  /\ UNCHANGED <<storeVars, user, reviews, wishlist, card, cartData, checkout, toast, resp, added>>

\* the product query refetches and delivers changed data
RefetchProduct(t) ==
  /\ page[t].product # NoProduct
  /\ page[t].pc = "idle"
  /\ VisibleProduct(page[t].id) \notin {NoProduct, page[t].product}
  /\ page' = [page EXCEPT ![t] = AfterProductLoaded(page[t], VisibleProduct(page[t].id))]
  /\ UNCHANGED <<storeVars, user, reviews, wishlist, card, cartData, checkout, toast, resp, added>>

\* handleSelectVariant: click on the i-th variant button
handleSelectVariant(t, i) ==
  /\ page[t].product # NoProduct
  /\ hasVariants(page[t].product)
  /\ i \in 1..Len(parseVariantOptions(page[t].product.variant_values))
  /\ page' = [page EXCEPT ![t].selectedVariant =
                parseVariantOptions(page[t].product.variant_values)[i]]
  /\ UNCHANGED <<storeVars, user, reviews, wishlist, card, cartData, checkout, toast, resp, added>>

\* handleSelectMeasurement: click on the i-th measurement button
handleSelectMeasurement(t, i) ==
  /\ page[t].product # NoProduct
  /\ hasMeasurements(page[t].product)
  /\ i \in 1..Len(measurementValues(page[t].product.measurement_values))
  /\ page' = [page EXCEPT ![t].selectedMeasurement =
                measurementValues(page[t].product.measurement_values)[i]]
  /\ UNCHANGED <<storeVars, user, reviews, wishlist, card, cartData, checkout, toast, resp, added>>

\* vPrice / mPrice: the selection's price when it is a non-NaN number, else 0
SelectionPrice(sel) ==
  IF TypeofNumber(sel.price) /\ sel.price.t # "nan" THEN sel.price ELSE Num(0)

\* effectivePrice with the catalog fallback written with || instead of ??:
\* a sale price of 0 falls through to the base price
effectivePrice_FalsyOffer(product, selectedVariant, selectedMeasurement) ==
  LET vPrice == SelectionPrice(selectedVariant)
      mPrice == SelectionPrice(selectedMeasurement)
  IN  IF Truthy(vPrice) \/ Truthy(mPrice)
      THEN Plus(vPrice, mPrice)
      ELSE IF Truthy(product.offer_price_per_litre)
           THEN product.offer_price_per_litre ELSE product.price_per_litre

\* effectivePrice of the page
effectivePrice(product, selectedVariant, selectedMeasurement) ==
  LET vPrice == SelectionPrice(selectedVariant)
      mPrice == SelectionPrice(selectedMeasurement)
  IN  IF Truthy(vPrice) \/ Truthy(mPrice)
      THEN Plus(vPrice, mPrice)
      ELSE Coalesce(product.offer_price_per_litre, product.price_per_litre)

\* an admin saves a product row (policy "Admins can update products")
AdminUpdateProduct(p, row) ==
  /\ row # products[p]
  /\ products' = [products EXCEPT ![p] = row]
  /\ UNCHANGED <<cart_items, orders, order_items, coupons, now, cartSeq,
                 user, reviews, wishlist, card, page, cartData, checkout, toast, resp, added>>

(***************************************************************************)
(* Store: cart_items.                                                      *)
(***************************************************************************)
\* variant_selection ->> 'label'
VariantLabel(row) == row.variant_selection.label

\* the unique index cart_items_user_product_variant_measurement_key on
\* (user_id, product_id, variant_selection->>'label', measurement_value):
\* a Postgres unique index treats NULLs as distinct, so a key with a NULL
\* column never conflicts
UniqueViolation(row, table) ==
  \E r \in table :
    /\ r.id # row.id
    /\ r.user_id = row.user_id
    /\ r.product_id = row.product_id
    /\ VariantLabel(r) # NULL /\ VariantLabel(r) = VariantLabel(row)
    /\ r.measurement_value # NULL /\ r.measurement_value = row.measurement_value

\* what the store may answer to a write that would otherwise succeed
StoreAnswers == {"ok", "failed"}

(***************************************************************************)
(* ProductDetail page: quantity controls and addToCartMutation.            *)
(***************************************************************************)
\* minus button: setQuantity(Math.max(1, quantity - 1))
QuantityMinus(t) ==
  /\ page[t].product # NoProduct
  /\ page[t].quantity > 1
  /\ page' = [page EXCEPT ![t].quantity = IF @ - 1 < 1 THEN 1 ELSE @ - 1]
  /\ UNCHANGED <<storeVars, user, reviews, wishlist, card, cartData, checkout, toast, resp, added>>

\* plus button: setQuantity(quantity + 1)
QuantityPlus(t) ==
  /\ page[t].product # NoProduct
  /\ page[t].quantity < MaxQty
  /\ page' = [page EXCEPT ![t].quantity = @ + 1]
  /\ UNCHANGED <<storeVars, user, reviews, wishlist, card, cartData, checkout, toast, resp, added>>

\* the texts typed into a quantity field
TypedTexts == {"", "0", "0.5", "-1", "1.5", "2"}

\* parseFloat of a typed text: not a number, or a count of half litres
parseFloat(s) ==
  CASE s = "0"   -> [nan |-> FALSE, halves |-> 0]
    [] s = "0.5" -> [nan |-> FALSE, halves |-> 1]
    [] s = "-1"  -> [nan |-> FALSE, halves |-> 0 - 2]
    [] s = "1.5" -> [nan |-> FALSE, halves |-> 3]
    [] s = "2"   -> [nan |-> FALSE, halves |-> 4]
    [] OTHER     -> [nan |-> TRUE, halves |-> 0]

\* parseInt of a typed text: the digits before the decimal point
parseInt(s) ==
  LET f == parseFloat(s)
  IN  IF f.nan THEN f
      ELSE [nan |-> FALSE,
            halves |-> IF f.halves < 0 THEN 0 - 2 * ((0 - f.halves) \div 2)
                       ELSE 2 * (f.halves \div 2)]

\* Math.max(1, x || 1) in half litres: NaN and 0 are falsy
AtLeastOne(x) ==
  LET y == IF x.nan \/ x.halves = 0 THEN 2 ELSE x.halves
  IN  IF y < 2 THEN 2 ELSE y

\* typed quantity: setQuantity(Math.max(1, parseInt(e.target.value) || 1))
QuantityType(t, s) ==
  /\ page[t].product # NoProduct
  /\ AtLeastOne(parseInt(s)) \div 2 <= MaxQty
  /\ page' = [page EXCEPT ![t].quantity = AtLeastOne(parseInt(s)) \div 2]
  /\ UNCHANGED <<storeVars, user, reviews, wishlist, card, cartData, checkout, toast, resp, added>>

selectionMissing(pg) ==
  \/ hasVariants(pg.product) /\ pg.selectedVariant = NoOption
  \/ hasMeasurements(pg.product) /\ pg.selectedMeasurement = NoOption

\* a matcher that compares the variant label only
CartLineMatches_VariantOnly(item, selectedVariant, selectedMeasurement) ==
  VariantLabel(item) = selectedVariant.label

\* the predicate of existing.find(...)
CartLineMatches(item, selectedVariant, selectedMeasurement) ==
  LET itemVar == VariantLabel(item)
      currVar == selectedVariant.label
      itemMeas == item.measurement_value
      currMeas == selectedMeasurement.label
  IN  itemVar = currVar /\ itemMeas = currMeas

\* the tuple that identifies a cart line: user, product, variant label and
\* measurement label (NULL when nothing is selected)
LineKey(u, p, variantLabel, measurementLabel) ==
  <<u, p, variantLabel, measurementLabel>>
KeyOfRow(r) == LineKey(r.user_id, r.product_id, VariantLabel(r), r.measurement_value)
SelectionKey(u, pg) ==
  LineKey(u, pg.id, pg.selectedVariant.label, pg.selectedMeasurement.label)
\* the history `added` is a set of [key, quantity, adds] entries, one per
\* key: the summed quantity and the number of the accepted operations
AddedEntry(k) ==
  IF \E e \in added : e.key = k
  THEN CHOOSE e \in added : e.key = k
  ELSE [key |-> k, quantity |-> 0, adds |-> 0]
RecordAdd(k, q) ==
  {e \in added : e.key # k}
    \cup {[key |-> k, quantity |-> AddedEntry(k).quantity + q,
           adds |-> AddedEntry(k).adds + 1]}

\* the row addToCartMutation inserts
NewCartRow(id, u, pg) ==
  [id |-> id, user_id |-> u, product_id |-> pg.id,
   quantity_litres |-> pg.quantity,
   variant_selection |->
     IF pg.selectedVariant = NoOption THEN NoOption
     ELSE Option(pg.selectedVariant.label, pg.selectedVariant.image_url,
                 ToJson(Coalesce(pg.selectedVariant.price, Null))),
   variant_price |-> ToJson(Coalesce(pg.selectedVariant.price, Null)),
   measurement_label |->
     IF pg.product.measurement_title \in {"", NULL} THEN NULL
     ELSE pg.product.measurement_title,
   measurement_value |-> pg.selectedMeasurement.label,
   measurement_price |-> ToJson(Coalesce(pg.selectedMeasurement.price, Null))]

\* addToCartMutation without the two selection checks
AddToCartRead_NoSelectionCheck(t, answer) ==
  /\ page[t].product # NoProduct
  /\ page[t].pc = "idle"
  /\ page' = [page EXCEPT
         ![t].pc = "read",
         ![t].existing =
            IF answer = "ok"
            THEN {r \in cart_items : r.user_id = user[t]
                                     /\ r.product_id = page[t].id}
            ELSE {}]
  /\ UNCHANGED toast
  /\ UNCHANGED <<storeVars, user, reviews, wishlist, card, cartData, checkout, resp, added>>

\* addToCartMutation, first part: the validation and the read of the user's
\* lines of this product (a failed read leaves `existing` null, read as [])
AddToCartRead(t, answer) ==
  /\ page[t].product # NoProduct
  /\ page[t].pc = "idle"
  /\ IF selectionMissing(page[t])
     THEN /\ toast' = [toast EXCEPT ![t] = "Please select"]
          /\ UNCHANGED page
     ELSE /\ page' = [page EXCEPT
                 ![t].pc = "read",
                 ![t].existing =
                    IF answer = "ok"
                    THEN {r \in cart_items : r.user_id = user[t]
                                             /\ r.product_id = page[t].id}
                    ELSE {}]
          /\ UNCHANGED toast
  /\ UNCHANGED <<storeVars, user, reviews, wishlist, card, cartData, checkout, resp, added>>

\* addToCartMutation, second part: update the matched line or insert a new
\* one; the store's answer is awaited but its error is not looked at, so
\* onSuccess runs whatever the store answered
AddToCartWrite(t, answer) ==
  /\ page[t].pc = "read"
  /\ LET pg == page[t]
         matches == {r \in pg.existing :
                       CartLineMatches(r, pg.selectedVariant, pg.selectedMeasurement)}
     IN  IF matches # {}
         THEN \E match \in matches :
                /\ match.quantity_litres + pg.quantity <= MaxQty
                /\ cart_items' =
                     IF answer = "ok"
                     THEN {IF r.id = match.id
                           THEN [r EXCEPT !.quantity_litres =
                                   match.quantity_litres + pg.quantity]
                           ELSE r : r \in cart_items}
                     ELSE cart_items
                /\ resp' = [resp EXCEPT ![t] = answer]
                /\ added' = IF answer = "ok"
                            THEN RecordAdd(SelectionKey(user[t], pg), pg.quantity)
                            ELSE added
                /\ UNCHANGED cartSeq
         ELSE LET row == NewCartRow(cartSeq + 1, user[t], pg)
              IN  /\ cartSeq < MaxCartRows
                  /\ IF answer # "ok"
                     THEN /\ resp' = [resp EXCEPT ![t] = answer]
                          /\ UNCHANGED <<cart_items, cartSeq, added>>
                     ELSE IF UniqueViolation(row, cart_items)
                     THEN /\ resp' = [resp EXCEPT ![t] = "23505"]
                          /\ UNCHANGED <<cart_items, cartSeq, added>>
                     ELSE /\ resp' = [resp EXCEPT ![t] = "ok"]
                          /\ cart_items' = cart_items \cup {row}
                          /\ cartSeq' = cartSeq + 1
                          /\ added' = RecordAdd(SelectionKey(user[t], pg), pg.quantity)
  /\ page' = [page EXCEPT ![t].pc = "idle", ![t].existing = {}]
  /\ toast' = [toast EXCEPT ![t] = "Added to cart"]
  /\ UNCHANGED <<products, orders, order_items, coupons, now, user, reviews, wishlist, card, cartData, checkout>>

(***************************************************************************)
(* Cart and Checkout pages: the shared ['cart', user.id] query.            *)
(***************************************************************************)
\* select('*, products (*)'): a cart row joined with its product as the
\* signed-in customer may see it
JoinedRow(r) ==
  [id |-> r.id, user_id |-> r.user_id, product_id |-> r.product_id,
   quantity_litres |-> r.quantity_litres,
   variant_selection |-> r.variant_selection, variant_price |-> r.variant_price,
   measurement_label |-> r.measurement_label,
   measurement_value |-> r.measurement_value,
   measurement_price |-> r.measurement_price,
   products |-> VisibleProduct(r.product_id)]

\* queryFn of the cart query
CartQuery(u) == {JoinedRow(r) : r \in {x \in cart_items : x.user_id = u}}

\* item.products?.field
JoinedField(item, value) == IF item.products = NoProduct THEN Undefined ELSE value

\* unit price of a cart item as Checkout computes it (subtotal and orderItems)
CheckoutUnitPrice(item) ==
  LET variantPrice == IF TypeofNumber(item.variant_price) THEN item.variant_price
                      ELSE item.variant_selection.price
      measurementPrice == IF TypeofNumber(item.measurement_price)
                          THEN item.measurement_price ELSE Undefined
  IN  IF TypeofNumber(variantPrice) \/ TypeofNumber(measurementPrice)
      THEN Plus(Coalesce(variantPrice, Num(0)), Coalesce(measurementPrice, Num(0)))
      ELSE Coalesce(JoinedField(item, item.products.offer_price_per_litre),
                    Coalesce(JoinedField(item, item.products.price_per_litre), Num(0)))

\* unit price of a cart item as the Cart page computes it for its total; a
\* row without a joined product is skipped and adds nothing
CartUnitPrice(item) ==
  LET variantPrice == IF TypeofNumber(item.variant_price) THEN item.variant_price
                      ELSE item.variant_selection.price
      measurementPrice == IF TypeofNumber(item.measurement_price)
                          THEN item.measurement_price ELSE Undefined
  IN  IF item.products = NoProduct THEN Num(0)
      ELSE IF TypeofNumber(variantPrice) \/ TypeofNumber(measurementPrice)
      THEN Plus(Coalesce(variantPrice, Num(0)), Coalesce(measurementPrice, Num(0)))
      ELSE Coalesce(item.products.offer_price_per_litre,
                    Coalesce(item.products.price_per_litre, Num(0)))

\* sum of the values of a function with a finite domain
RECURSIVE Sum(_)
Sum(f) ==
  IF DOMAIN f = {} THEN 0
  ELSE LET k == CHOOSE x \in DOMAIN f : TRUE
       IN  f[k] + Sum([j \in DOMAIN f \ {k} |-> f[j]])

\* items.reduce((sum, item) => sum + price * item.quantity_litres, 0) || 0
\* over line prices given per row id; a NaN sum is falsy and becomes 0
ReduceTotal(items, prices) ==
  IF \E item \in items : prices[item.id].t = "nan" THEN 0
  ELSE Sum([i \in {item.id : item \in items} |->
              prices[i].v * (CHOOSE item \in items : item.id = i).quantity_litres])

\* Checkout: subtotal (cartItems undefined gives 0)
subtotal(items) ==
  ReduceTotal(items, [i \in {item.id : item \in items} |->
                        CheckoutUnitPrice(CHOOSE item \in items : item.id = i)])

\* Cart: total
total(items) ==
  ReduceTotal(items, [i \in {item.id : item \in items} |->
                        CartUnitPrice(CHOOSE item \in items : item.id = i)])

\* (re)fetch of the cart query of tab t: mounting Cart or Checkout, or a
\* refetch of the mounted page
LoadCart(t) ==
  /\ checkout[t].pc = "idle"
  /\ cartData[t] # CartQuery(user[t])
  /\ cartData' = [cartData EXCEPT ![t] = CartQuery(user[t])]
  /\ UNCHANGED <<storeVars, user, reviews, wishlist, card, page, checkout, toast, resp, added>>

\* Cart: updateQuantityMutation on a shown item, then the invalidated cart
\* query refetches
updateQuantityMutation(t, item, quantity, answer) ==
  /\ checkout[t].pc = "idle"
  /\ item \in cartData[t]
  /\ quantity <= MaxQty
  /\ cart_items' = IF answer = "ok"
                   THEN {IF r.id = item.id
                         THEN [r EXCEPT !.quantity_litres = quantity] ELSE r :
                         r \in cart_items}
                   ELSE cart_items
  /\ resp' = [resp EXCEPT ![t] = answer]
  /\ cartData' = IF answer = "ok"
                 THEN [cartData EXCEPT ![t] =
                         {JoinedRow(r) : r \in {x \in cart_items' : x.user_id = user[t]}}]
                 ELSE cartData
  /\ UNCHANGED <<products, orders, order_items, coupons, now, cartSeq,
                 user, reviews, wishlist, card, page, checkout, toast, added>>

\* the cart items the Cart page renders: a row without a joined product
\* renders nothing
ShownItems(t) == {item \in cartData[t] : item.products # NoProduct}

\* a minus button without the floor of 1
CartMinus_NoFloor(t, answer) ==
  \E item \in ShownItems(t) :
    updateQuantityMutation(t, item, item.quantity_litres - 1, answer)

\* Cart: minus button
CartMinus(t, answer) ==
  \E item \in ShownItems(t) :
    updateQuantityMutation(t, item,
      IF item.quantity_litres - 1 < 1 THEN 1 ELSE item.quantity_litres - 1, answer)

\* Cart: plus button
CartPlus(t, answer) ==
  \E item \in ShownItems(t) :
    updateQuantityMutation(t, item, item.quantity_litres + 1, answer)

\* Cart: typed quantity, Math.max(1, parseFloat(e.target.value) || 1); the
\* quantities of the model are whole litres
CartType(t, s, answer) ==
  \E item \in ShownItems(t) :
    /\ AtLeastOne(parseFloat(s)) % 2 = 0
    /\ updateQuantityMutation(t, item, AtLeastOne(parseFloat(s)) \div 2, answer)

\* Cart: removeItemMutation on a shown item, then the cart query refetches
removeItemMutation(t, answer) ==
  \E item \in ShownItems(t) :
    /\ checkout[t].pc = "idle"
    /\ cart_items' = IF answer = "ok"
                     THEN {r \in cart_items : r.id # item.id} ELSE cart_items
    /\ resp' = [resp EXCEPT ![t] = answer]
    /\ toast' = IF answer = "ok" THEN [toast EXCEPT ![t] = "Item removed"] ELSE toast
    /\ cartData' = IF answer = "ok"
                   THEN [cartData EXCEPT ![t] =
                           {JoinedRow(r) : r \in {x \in cart_items' : x.user_id = user[t]}}]
                   ELSE cartData
    /\ UNCHANGED <<products, orders, order_items, coupons, now, cartSeq,
                   user, reviews, wishlist, card, page, checkout, added>>

(***************************************************************************)
(* Checkout page.                                                          *)
(***************************************************************************)
Coupon(code, type, value, min, max, until, active) ==
  [code |-> code, discount_type |-> type, discount_value |-> value,
   min_order_amount |-> min, max_discount_amount |-> max,
   valid_from |-> 0, valid_until |-> until, is_active |-> active]
\* appliedCoupon = null
NoCoupon == Coupon(NULL, "fixed", 0, Null, Null, Null, FALSE)

\* the rows of table coupons
InitialCoupons ==
  { Coupon("SAVE10", "percentage", 10, Null, Null, Null, TRUE),
    Coupon("HALF", "percentage", 50, Num(20000), Num(5000), Num(1), TRUE),
    Coupon("FLAT", "fixed", 40000, Num(30000), Null, Num(0), TRUE),
    Coupon("GONE", "fixed", 1000, Null, Null, Null, FALSE),
    [Coupon("SOON", "percentage", 10, Null, Null, Null, TRUE)
       EXCEPT !.valid_from = 2],
    Coupon("ZERO", "percentage", 20, Null, Num(0), Null, TRUE) }

\* texts typed into the coupon field, and String.prototype.toUpperCase on them
CouponTexts == {"save10", "HALF", "flat", "GONE", "NOPE", "SOON", "ZERO"}
toUpperCase(text) ==
  CASE text = "save10" -> "SAVE10"
    [] text = "flat" -> "FLAT"
    [] OTHER -> text

\* texts typed into the address field, and their lengths
Addresses == {"", "Flat 2", "12 Gandhi Road, Chennai"}
StringLength(a) ==
  CASE a = "" -> 0
    [] a = "Flat 2" -> 6
    [] OTHER -> 23
\* z.string().min(10, ...)
MinAddressLength == 10

\* state of a freshly mounted Checkout page
MountedCheckout ==
  [address |-> "", couponCode |-> "", appliedCoupon |-> NoCoupon,
   pc |-> "idle", order |-> 0]

\* discount without the Math.min against max_discount_amount
discount_Uncapped(appliedCoupon, sub) ==
  IF appliedCoupon = NoCoupon THEN 0
  ELSE IF appliedCoupon.discount_type = "percentage"
  THEN (sub * appliedCoupon.discount_value) \div 100
  ELSE appliedCoupon.discount_value

\* discount with a fixed value clamped to the subtotal
discount_ClampedFixed(appliedCoupon, sub) ==
  IF appliedCoupon = NoCoupon THEN 0
  ELSE IF appliedCoupon.discount_type = "percentage"
  THEN LET pct == (sub * appliedCoupon.discount_value) \div 100
           cap == appliedCoupon.max_discount_amount
       IN  IF Truthy(cap) /\ cap.v < pct THEN cap.v ELSE pct
  ELSE IF appliedCoupon.discount_value > sub THEN sub
       ELSE appliedCoupon.discount_value

\* discount of the page
discount(appliedCoupon, sub) ==
  IF appliedCoupon = NoCoupon THEN 0
  ELSE IF appliedCoupon.discount_type = "percentage"
  THEN LET pct == (sub * appliedCoupon.discount_value) \div 100
           cap == appliedCoupon.max_discount_amount
       IN  IF Truthy(cap) /\ cap.v < pct THEN cap.v ELSE pct
  ELSE appliedCoupon.discount_value

\* .eq('code', code).eq('is_active', true).maybeSingle(): the row, or null
ActiveCoupon(code) ==
  IF \E c \in coupons : c.code = code /\ c.is_active
  THEN CHOOSE c \in coupons : c.code = code /\ c.is_active
  ELSE NoCoupon

\* the checks with the expiry looked at before the minimum order amount
applyCouponError_ExpiryFirst(data, sub, time) ==
  IF data = NoCoupon THEN "Invalid coupon code"
  ELSE IF data.valid_until # Null /\ data.valid_until.v < time
  THEN "Coupon has expired"
  ELSE IF Truthy(data.min_order_amount) /\ sub < data.min_order_amount.v
  THEN "Minimum order amount"
  ELSE ""

\* mutationFn of applyCouponMutation after the query answered with `data`:
\* the error it throws, or "" when it returns data
applyCouponError(data, sub, time) ==
  IF data = NoCoupon THEN "Invalid coupon code"
  ELSE IF Truthy(data.min_order_amount) /\ sub < data.min_order_amount.v
  THEN "Minimum order amount"
  ELSE IF data.valid_until # Null /\ data.valid_until.v < time
  THEN "Coupon has expired"
  ELSE ""

setAddress(t, a) ==
  /\ checkout[t].pc = "idle"
  /\ a # checkout[t].address
  /\ checkout' = [checkout EXCEPT ![t].address = a]
  /\ UNCHANGED <<storeVars, user, reviews, wishlist, card, page, cartData, toast, resp, added>>

\* the coupon field is disabled while a coupon is applied
setCouponCode(t, text) ==
  /\ checkout[t].pc = "idle"
  /\ checkout[t].appliedCoupon = NoCoupon
  /\ text # checkout[t].couponCode
  /\ checkout' = [checkout EXCEPT ![t].couponCode = text]
  /\ UNCHANGED <<storeVars, user, reviews, wishlist, card, page, cartData, toast, resp, added>>

\* Apply button (shown while no coupon is applied, enabled with a code typed)
applyCouponMutation(t, answer) ==
  /\ checkout[t].pc = "idle"
  /\ checkout[t].appliedCoupon = NoCoupon
  /\ checkout[t].couponCode # ""
  /\ LET data == ActiveCoupon(toUpperCase(checkout[t].couponCode))
         error == IF answer # "ok" THEN "store error"
                  ELSE applyCouponError(data, subtotal(cartData[t]), now)
     IN  IF error = ""
         THEN /\ checkout' = [checkout EXCEPT ![t].appliedCoupon = data]
              /\ toast' = [toast EXCEPT ![t] = "Coupon applied successfully"]
         ELSE /\ toast' = [toast EXCEPT ![t] = error]
              /\ UNCHANGED checkout
  /\ UNCHANGED <<storeVars, user, reviews, wishlist, card, page, cartData, resp, added>>

\* Remove button
removeCoupon(t) ==
  /\ checkout[t].pc = "idle"
  /\ checkout[t].appliedCoupon # NoCoupon
  /\ checkout' = [checkout EXCEPT ![t].appliedCoupon = NoCoupon, ![t].couponCode = ""]
  /\ UNCHANGED <<storeVars, user, reviews, wishlist, card, page, cartData, toast, resp, added>>

\* the orders row createSupabaseOrder inserts
NewOrder(id, u, co, items) ==
  LET sub == subtotal(items)
      disc == discount(co.appliedCoupon, sub)
  IN  [id |-> id, user_id |-> u, total_amount |-> sub, discount_amount |-> disc,
       final_amount |-> sub - disc, coupon_code |-> co.appliedCoupon.code,
       shipping_address |-> co.address,
       status |-> "pending", payment_status |-> "pending"]

\* one element of orderItems
NewOrderItem(orderId, item) ==
  LET pricePerLitre == CheckoutUnitPrice(item)
  IN  [id |-> <<orderId, item.id>>, order_id |-> orderId,
       product_id |-> item.product_id,
       product_name |-> IF item.products = NoProduct THEN "" ELSE item.products.name,
       quantity_litres |-> item.quantity_litres,
       price_per_litre |-> pricePerLitre.v,
       total_price |-> pricePerLitre.v * item.quantity_litres,
       variant_selection |-> item.variant_selection,
       measurement_label |->
         IF item.measurement_label \notin {"", NULL} THEN item.measurement_label
         ELSE IF item.products # NoProduct
                 /\ item.products.measurement_title \notin {"", NULL}
         THEN item.products.measurement_title ELSE NULL,
       measurement_value |->
         IF item.measurement_value = "" THEN NULL ELSE item.measurement_value]

\* policies that would also let a client UPDATE order_items
OrderItemsPolicy_WithUpdate(command) == command \in {"SELECT", "INSERT", "UPDATE"}

\* row-level security is enabled on order_items and its policies cover
\* SELECT and INSERT only: no UPDATE or DELETE reaches a row
OrderItemsPolicy(command) == command \in {"SELECT", "INSERT"}

\* placeOrderMutation without the two checks of cartItems: an empty cart
\* goes on to the insert into orders
PlaceOrder_NoEmptyCheck(t, answer) ==
  /\ checkout[t].pc = "idle"
  /\ IF StringLength(checkout[t].address) < MinAddressLength
     THEN /\ toast' = [toast EXCEPT ![t] = "Address must be at least 10 characters"]
          /\ UNCHANGED <<orders, checkout>>
     ELSE /\ Cardinality(orders) < MaxOrders
          /\ IF answer = "ok"
             THEN LET order == NewOrder(Cardinality(orders) + 1, user[t],
                                        checkout[t], cartData[t])
                  IN  /\ orders' = orders \cup {order}
                      /\ checkout' = [checkout EXCEPT ![t].pc = "items",
                                                      ![t].order = order.id]
                      /\ UNCHANGED toast
             ELSE /\ toast' = [toast EXCEPT ![t] = "store error"]
                  /\ UNCHANGED <<orders, checkout>>
  /\ UNCHANGED <<products, cart_items, order_items, coupons, now, cartSeq,
                 user, reviews, wishlist, card, page, cartData, resp, added>>

\* placeOrderMutation whose catch block swallows the ZodError: an invalid
\* address goes on to the cart check and the insert into orders
PlaceOrder_NoAddressCheck(t, answer) ==
  /\ checkout[t].pc = "idle"
  /\ IF cartData[t] = {}
     THEN /\ toast' = [toast EXCEPT ![t] = "Cart is empty"]
          /\ UNCHANGED <<orders, checkout>>
     ELSE /\ Cardinality(orders) < MaxOrders
          /\ IF answer = "ok"
             THEN LET order == NewOrder(Cardinality(orders) + 1, user[t],
                                        checkout[t], cartData[t])
                  IN  /\ orders' = orders \cup {order}
                      /\ checkout' = [checkout EXCEPT ![t].pc = "items",
                                                      ![t].order = order.id]
                      /\ UNCHANGED toast
             ELSE /\ toast' = [toast EXCEPT ![t] = "store error"]
                  /\ UNCHANGED <<orders, checkout>>
  /\ UNCHANGED <<products, cart_items, order_items, coupons, now, cartSeq,
                 user, reviews, wishlist, card, page, cartData, resp, added>>

\* placeOrderMutation up to the insert into orders
PlaceOrder(t, answer) ==
  /\ checkout[t].pc = "idle"
  /\ IF StringLength(checkout[t].address) < MinAddressLength
     THEN /\ toast' = [toast EXCEPT ![t] = "Address must be at least 10 characters"]
          /\ UNCHANGED <<orders, checkout>>
     ELSE IF cartData[t] = {}
     THEN /\ toast' = [toast EXCEPT ![t] = "Cart is empty"]
          /\ UNCHANGED <<orders, checkout>>
     ELSE /\ Cardinality(orders) < MaxOrders
          /\ IF answer = "ok"
             THEN LET order == NewOrder(Cardinality(orders) + 1, user[t],
                                        checkout[t], cartData[t])
                  IN  /\ orders' = orders \cup {order}
                      /\ checkout' = [checkout EXCEPT ![t].pc = "items",
                                                      ![t].order = order.id]
                      /\ UNCHANGED toast
             ELSE /\ toast' = [toast EXCEPT ![t] = "store error"]
                  /\ UNCHANGED <<orders, checkout>>
  /\ UNCHANGED <<products, cart_items, order_items, coupons, now, cartSeq,
                 user, reviews, wishlist, card, page, cartData, resp, added>>

\* placeOrderMutation from the insert into order_items on: on success the
\* page navigates to /payment and Checkout unmounts
PlaceOrderItems(t, answer) ==
  /\ checkout[t].pc = "items"
  /\ IF answer = "ok" /\ OrderItemsPolicy("INSERT")
     THEN /\ order_items' = order_items \cup
                {NewOrderItem(checkout[t].order, item) : item \in cartData[t]}
          /\ toast' = [toast EXCEPT ![t] = "Order created. Proceed to pay."]
          /\ checkout' = [checkout EXCEPT ![t] = MountedCheckout]
     ELSE /\ toast' = [toast EXCEPT ![t] = "store error"]
          /\ checkout' = [checkout EXCEPT ![t].pc = "idle", ![t].order = 0]
          /\ UNCHANGED order_items
  /\ UNCHANGED <<products, cart_items, orders, coupons, now, cartSeq,
                 user, reviews, wishlist, card, page, cartData, resp, added>>

\* time passes
Tick ==
  /\ now < MaxTime
  /\ now' = now + 1
  /\ UNCHANGED <<products, cart_items, orders, order_items, coupons, cartSeq,
                 user, reviews, wishlist, card, page, cartData, checkout, toast, resp, added>>

\* a client sends an UPDATE of order_items through the API, rewriting the
\* price and name of the lines of product p from the live catalog
UpdateOrderItems(t, p) ==
  /\ order_items # {}
  /\ order_items' =
       IF OrderItemsPolicy("UPDATE")
       THEN {IF oi.product_id = p
             THEN [oi EXCEPT
                     !.product_name = products[p].name,
                     !.price_per_litre =
                        Coalesce(products[p].offer_price_per_litre,
                                 products[p].price_per_litre).v,
                     !.total_price =
                        Coalesce(products[p].offer_price_per_litre,
                                 products[p].price_per_litre).v * oi.quantity_litres]
             ELSE oi : oi \in order_items}
       ELSE order_items
  /\ resp' = [resp EXCEPT ![t] = "ok"]
  /\ UNCHANGED <<products, cart_items, orders, coupons, now, cartSeq,
                 user, reviews, wishlist, card, page, cartData, checkout, toast, added>>

(***************************************************************************)
(* Reviews: the review form of the ProductDetail page.                     *)
(***************************************************************************)
\* what the customer may have in the form: the rating (5 when the form is
\* fresh, 0 for none) and the comment
Ratings == {0, 3, 5}
Comments == {"", "  ", "Good oil"}

\* the row addReviewMutation inserts
NewReview(p, u, rating, comment) ==
  [product_id |-> p, user_id |-> u, rating |-> rating, comment |-> Trim(comment)]

\* UNIQUE(product_id, user_id) of reviews
ReviewUniqueViolation(row, rows) ==
  \E r \in rows : r.product_id = row.product_id /\ r.user_id = row.user_id

\* addReviewMutation: the two form checks, then the insert; the promise of
\* the insert is awaited but the error in its answer is not looked at, so
\* onSuccess runs whatever the store answered
addReviewMutation(t, rating, comment, answer) ==
  /\ page[t].product # NoProduct
  /\ IF rating = 0
     THEN /\ toast' = [toast EXCEPT ![t] = "Please select a rating"]
          /\ UNCHANGED reviews
     ELSE IF Trim(comment) = ""
     THEN /\ toast' = [toast EXCEPT ![t] = "Please write a comment"]
          /\ UNCHANGED reviews
     ELSE LET row == NewReview(page[t].id, user[t], rating, comment)
          IN  /\ reviews' = IF answer = "ok" /\ ~ReviewUniqueViolation(row, reviews)
                            THEN reviews \cup {row} ELSE reviews
              /\ resp' = [resp EXCEPT ![t] =
                            IF answer # "ok" THEN answer
                            ELSE IF ReviewUniqueViolation(row, reviews) THEN "23505"
                            ELSE "ok"]
              /\ toast' = [toast EXCEPT ![t] = "Review added"]
  /\ IF rating = 0 \/ Trim(comment) = "" THEN UNCHANGED resp ELSE TRUE
  /\ UNCHANGED <<storeVars, user, wishlist, card, page, cartData, checkout, added>>

\* deleteReviewMutation on the customer's own review of the product shown
deleteReviewMutation(t, answer) ==
  /\ page[t].product # NoProduct
  /\ \E r \in reviews : r.product_id = page[t].id /\ r.user_id = user[t]
  /\ reviews' = IF answer = "ok"
                THEN {r \in reviews : ~(r.product_id = page[t].id
                                        /\ r.user_id = user[t])}
                ELSE reviews
  /\ resp' = [resp EXCEPT ![t] = answer]
  /\ toast' = [toast EXCEPT ![t] = "Review deleted"]
  /\ UNCHANGED <<storeVars, user, wishlist, card, page, cartData, checkout, added>>

(***************************************************************************)
(* Wishlist: the heart button of a product card.                           *)
(***************************************************************************)
\* a row of table wishlist
WishlistRow(u, p) == [user_id |-> u, product_id |-> p]

\* UNIQUE(user_id, product_id) of wishlist
WishlistUniqueViolation(row, rows) == row \in rows

\* state of a product card for product p before its wishlist check answered:
\* the indicator, the request in flight and the indicator's value before
\* the click
MountedCard(p) ==
  [product |-> p, isWishlisted |-> FALSE, pc |-> "idle", before |-> FALSE]

\* a product card for p is shown and its wishlist check reads the store row
ShowCard(t, p) ==
  /\ card' = [card EXCEPT ![t] =
                [MountedCard(p) EXCEPT
                   !.isWishlisted = WishlistRow(user[t], p) \in wishlist]]
  /\ UNCHANGED <<storeVars, user, reviews, wishlist, page, cartData, checkout, toast,
                 resp, added>>

\* click on the heart of the card: the indicator flips at once and the
\* insert or delete is sent
WishlistClick(t) ==
  /\ card[t].pc = "idle"
  /\ card' = [card EXCEPT ![t].isWishlisted = ~card[t].isWishlisted,
                          ![t].before = card[t].isWishlisted,
                          ![t].pc = "pending"]
  /\ UNCHANGED <<storeVars, user, reviews, wishlist, page, cartData, checkout, toast,
                 resp, added>>

\* the store rejects the request the card of tab t has in flight
WishlistRejected(t, answer) ==
  \/ answer # "ok"
  \/ /\ ~card[t].before
     /\ WishlistUniqueViolation(WishlistRow(user[t], card[t].product), wishlist)

\* the answer to the toggle that keeps the flipped indicator whatever the
\* store said
WishlistAnswer_NoRevert(t, answer) ==
  /\ card[t].pc = "pending"
  /\ LET row == WishlistRow(user[t], card[t].product)
     IN  IF WishlistRejected(t, answer)
         THEN /\ card' = [card EXCEPT ![t].pc = "idle"]
              /\ toast' = [toast EXCEPT ![t] = "store error"]
              /\ UNCHANGED wishlist
         ELSE /\ wishlist' = IF card[t].before THEN wishlist \ {row}
                             ELSE wishlist \cup {row}
              /\ card' = [card EXCEPT ![t].pc = "idle"]
              /\ toast' = [toast EXCEPT ![t] =
                             IF card[t].before THEN "Removed from wishlist"
                             ELSE "Added to wishlist"]
  /\ UNCHANGED <<storeVars, user, reviews, page, cartData, checkout, resp, added>>

\* the answer to the toggle: on an error the indicator goes back to its value
\* before the click and the error is shown
WishlistAnswer(t, answer) ==
  /\ card[t].pc = "pending"
  /\ LET row == WishlistRow(user[t], card[t].product)
     IN  IF WishlistRejected(t, answer)
         THEN /\ card' = [card EXCEPT ![t].isWishlisted = card[t].before,
                                      ![t].pc = "idle"]
              /\ toast' = [toast EXCEPT ![t] = "store error"]
              /\ UNCHANGED wishlist
         ELSE /\ wishlist' = IF card[t].before THEN wishlist \ {row}
                             ELSE wishlist \cup {row}
              /\ card' = [card EXCEPT ![t].pc = "idle"]
              /\ toast' = [toast EXCEPT ![t] =
                             IF card[t].before THEN "Removed from wishlist"
                             ELSE "Added to wishlist"]
  /\ UNCHANGED <<storeVars, user, reviews, page, cartData, checkout, resp, added>>

(***************************************************************************)
(* Specifications.                                                         *)
(***************************************************************************)
Init ==
  /\ products = InitialProducts
  /\ cart_items = {}
  /\ orders = {}
  /\ order_items = {}
  /\ coupons = InitialCoupons
  /\ now = 0
  /\ cartSeq = 0
  /\ user = [t \in Tabs |-> "u1"]
  /\ reviews = {}
  /\ wishlist = {}
  /\ card = [t \in Tabs |-> MountedCard("p1")]
  /\ page = [t \in Tabs |-> MountedPage("p1")]
  /\ cartData = [t \in Tabs |-> {}]
  /\ checkout = [t \in Tabs |-> MountedCheckout]
  /\ toast = [t \in Tabs |-> ""]
  /\ resp = [t \in Tabs |-> ""]
  /\ added = {}

(***************************************************************************)
(* SpecPage: one ProductDetail page while an admin edits the catalog.      *)
(***************************************************************************)
NextPage ==
  \/ \E row \in {r \in ProductVersions("p2") : r.name = "Ghee"} :
       AdminUpdateProduct("p2", row)
  \/ \E p \in ProductIds : OpenProduct("t1", p)
  \/ RefetchProduct("t1")
  \/ \E i \in 1..3 : handleSelectVariant("t1", i)
  \/ \E i \in 1..3 : handleSelectMeasurement("t1", i)

SpecPage == Init /\ [][NextPage]_vars

\* the selection carries a price: a number that is not NaN
CarriesPrice(sel) == sel.price.t = "num"
\* the price a selection contributes, a missing one counting as 0
PriceOrZero(sel) == IF CarriesPrice(sel) THEN sel.price.v ELSE 0
\* the effective unit price the page of tab t shows
ShownPrice(t) ==
  effectivePrice(page[t].product, page[t].selectedVariant, page[t].selectedMeasurement)

\* C7: whenever the selected variant or the selected measurement carries a
\* non-NaN numeric price (0 included), the effective unit price is variant
\* price + measurement price (a missing one counted as 0), whatever the
\* product's sale and base price are.
C7_OptionPriceOverrides ==
  \A t \in Tabs :
    (page[t].product # NoProduct
     /\ (CarriesPrice(page[t].selectedVariant)
         \/ CarriesPrice(page[t].selectedMeasurement)))
    => ShownPrice(t) = Num(PriceOrZero(page[t].selectedVariant)
                           + PriceOrZero(page[t].selectedMeasurement))

\* C8: when neither selection carries a price (or nothing is selected), the
\* effective unit price is the sale price if present, the base price
\* otherwise.
C8_CatalogPriceFallback ==
  \A t \in Tabs :
    (page[t].product # NoProduct
     /\ ~CarriesPrice(page[t].selectedVariant)
     /\ ~CarriesPrice(page[t].selectedMeasurement))
    => ShownPrice(t) = IF page[t].product.offer_price_per_litre # Null
                       THEN page[t].product.offer_price_per_litre
                       ELSE page[t].product.price_per_litre

\* C8 witnesses: a page whose selection has no price shows the sale price 0
\* of its product; a NaN-priced measurement is selected
C8_Witness ==
  /\ page["t1"].product # NoProduct
  /\ page["t1"].selectedMeasurement.price = NaN
  /\ ~CarriesPrice(page["t1"].selectedVariant)
  /\ page["t1"].product.offer_price_per_litre = Num(0)
  /\ ShownPrice("t1") = Num(0)

(***************************************************************************)
(* SpecCart: two tabs add to the cart, their reads and writes interleave.  *)
(* SpecSeq : the operations of one tab, one at a time, the store accepting *)
(*           every read and write.                                         *)
(***************************************************************************)
\* tab t1 uses every control of the page; tab t2 opens a product and adds
\* it with the selection and quantity the page starts with
NextCart ==
  \/ \E t \in Tabs : \E p \in ProductIds : OpenProduct(t, p)
  \/ \E i \in 1..3 : handleSelectVariant("t1", i)
  \/ \E i \in 1..3 : handleSelectMeasurement("t1", i)
  \/ QuantityMinus("t1")
  \/ QuantityPlus("t1")
  \/ \E t \in Tabs : AddToCartRead(t, "ok")
  \/ \E t \in Tabs : \E a \in StoreAnswers : AddToCartWrite(t, a)

SpecCart == Init /\ [][NextCart]_vars

NextSeq ==
  \/ \E p \in ProductIds : OpenProduct("t1", p)
  \/ \E i \in 1..3 : handleSelectVariant("t1", i)
  \/ \E i \in 1..3 : handleSelectMeasurement("t1", i)
  \/ QuantityMinus("t1")
  \/ QuantityPlus("t1")
  \/ AddToCartRead("t1", "ok")
  \/ AddToCartWrite("t1", "ok")

SpecSeq == Init /\ [][NextSeq]_vars

\* the cart lines with a given key
LinesOf(k) == {r \in cart_items : KeyOfRow(r) = k}

\* C4: after any sequence of non-overlapping successful add-to-cart
\* operations the cart holds exactly one line per (user, product, variant
\* label, measurement label) combination that was added, null counting as a
\* value, and the line's quantity is the sum of the quantities added for it.
C4_OneLinePerCombination ==
  /\ \A e \in added :
       /\ Cardinality(LinesOf(e.key)) = 1
       /\ \A r \in LinesOf(e.key) : r.quantity_litres = e.quantity
  /\ \A r \in cart_items : \E e \in added : e.key = KeyOfRow(r)

\* C4 witness: two adds with nothing selected share one line of quantity 2,
\* while variants Red and Blue of the other product have a line each
C4_Witness ==
  /\ AddedEntry(LineKey("u1", "p1", NULL, NULL)).adds = 2
  /\ \E r \in cart_items :
       KeyOfRow(r) = LineKey("u1", "p1", NULL, NULL) /\ r.quantity_litres = 2
  /\ AddedEntry(LineKey("u1", "p2", "Red", "1L")).adds = 1
  /\ Cardinality(cart_items) = 2

\* C5: in every reachable state the store holds at most one cart line per
\* (userId, productId, variantLabel, measurementLabel), a null label counting
\* as a key value like any other.
C5_StoreKeepsKeysUnique ==
  \A r1, r2 \in cart_items : KeyOfRow(r1) = KeyOfRow(r2) => r1.id = r2.id

\* C6: an add-to-cart whose update or insert the store rejected ends as a
\* reported error: the step that ends it shows an error toast, not
\* 'Added to cart'.
C6_RejectedWriteIsReported ==
  [][\A t \in Tabs :
       (page[t].pc = "read" /\ page'[t].pc = "idle" /\ resp'[t] # "ok")
       => toast'[t] \notin {"", "Added to cart"}]_vars

(***************************************************************************)
(* Spec: tab t1 changes the cart on the Cart page and places orders on the *)
(*       Checkout page, an admin edits the catalog.                        *)
(* SpecCoupon: tab t1 applies coupons on the Checkout page while tab t2    *)
(*       changes the cart and time passes.                                 *)
(***************************************************************************)
\* a ProductDetail page showing `product` with a selection and a quantity
LoadedPage(p, product, v, m, q) ==
  [MountedPage(p) EXCEPT !.product = product, !.selectedVariant = v,
                         !.selectedMeasurement = m, !.quantity = q]

\* the cart lines in the store when the scenario starts, as addToCartMutation
\* inserted them: u1 has a line of 2 x Oil (no option, no stored price) and a
\* line of Ghee Red / 1L (stored prices 10000 and 5000), u2 a line of Oil
SeedCart ==
  LET oil == InitialProducts["p1"]
      ghee == InitialProducts["p2"]
      red == parseVariantOptions(ghee.variant_values)[1]
      oneL == measurementValues(ghee.measurement_values)[1]
  IN  { NewCartRow(1, "u1", LoadedPage("p1", oil, NoOption, NoOption, 2)),
        NewCartRow(2, "u1", LoadedPage("p2", ghee, red, oneL, 1)),
        NewCartRow(3, "u2", LoadedPage("p1", oil, NoOption, NoOption, 1)) }

InitCheckout ==
  /\ products = InitialProducts
  /\ cart_items = SeedCart
  /\ orders = {}
  /\ order_items = {}
  /\ coupons = InitialCoupons
  /\ now = 0
  /\ cartSeq = Cardinality(SeedCart)
  /\ user = [t \in Tabs |-> "u1"]
  /\ reviews = {}
  /\ wishlist = {}
  /\ card = [t \in Tabs |-> MountedCard("p1")]
  /\ page = [t \in Tabs |-> MountedPage("p1")]
  /\ cartData = [t \in Tabs |-> {}]
  /\ checkout = [t \in Tabs |-> MountedCheckout]
  /\ toast = [t \in Tabs |-> ""]
  /\ resp = [t \in Tabs |-> ""]
  /\ added = {[key |-> KeyOfRow(r), quantity |-> r.quantity_litres, adds |-> 1] :
                r \in SeedCart}

\* the rows the admin saves in this scenario: Oil with or without its sale
\* price, active or not; Ghee under either name
CatalogEdits(p) ==
  IF p = "p1" THEN ProductVersions("p1")
  ELSE {[InitialProducts["p2"] EXCEPT !.name = n] : n \in {"Ghee", "Ghee Gold"}}

\* the tab is on the Cart page (or on a Checkout page with nothing entered
\* yet, from where the customer goes back to the cart)
OnCartPage(t) == checkout[t] = MountedCheckout

Next ==
  \/ \E p \in ProductIds : \E row \in CatalogEdits(p) : AdminUpdateProduct(p, row)
  \/ LoadCart("t1")
  \/ OnCartPage("t1") /\ removeItemMutation("t1", "ok")
  \/ \E a \in Addresses : setAddress("t1", a)
  \/ \E text \in {"HALF", "save10"} : setCouponCode("t1", text)
  \/ applyCouponMutation("t1", "ok")
  \/ removeCoupon("t1")
  \/ \E a \in StoreAnswers : PlaceOrder("t1", a)
  \/ \E a \in StoreAnswers : PlaceOrderItems("t1", a)
  \/ \E p \in ProductIds : UpdateOrderItems("t1", p)

Spec == InitCheckout /\ [][Next]_vars

NextCoupon ==
  \/ \E t \in Tabs : LoadCart(t)
  \/ CartMinus("t2", "ok")
  \/ CartPlus("t2", "ok")
  \/ removeItemMutation("t2", "ok")
  \/ \E text \in CouponTexts : setCouponCode("t1", text)
  \/ \E a \in StoreAnswers : applyCouponMutation("t1", a)
  \/ removeCoupon("t1")
  \/ Tick

SpecCoupon == InitCheckout /\ [][NextCoupon]_vars

\* the order lines of order o
LinesOfOrder(o) == {oi \in order_items : oi.order_id = o.id}
\* the discount the coupon with the order's coupon_code gives on the order's
\* total_amount: a percentage of it, capped by max_discount_amount when that
\* is set, or the fixed value; 0 for an order without coupon
CouponDiscountOf(o) ==
  IF o.coupon_code = NULL THEN 0
  ELSE LET c == CHOOSE x \in coupons : x.code = o.coupon_code
           pct == (o.total_amount * c.discount_value) \div 100
       IN  IF c.discount_type # "percentage" THEN c.discount_value
           ELSE IF c.max_discount_amount # Null /\ c.max_discount_amount.v < pct
           THEN c.max_discount_amount.v
           ELSE pct

CatalogRowOf(item) ==
  IF item.products # NoProduct THEN item.products ELSE products[item.product_id]
\* the catalog price of a row: the sale price if present, else the base price
CatalogPrice(row) ==
  IF row.offer_price_per_litre # Null THEN row.offer_price_per_litre.v
  ELSE row.price_per_litre.v
\* the line stored a variant price or a measurement price
StoredAPrice(item) == item.variant_price # Null \/ item.measurement_price # Null
StoredSum(item) ==
  (IF item.variant_price # Null THEN item.variant_price.v ELSE 0)
    + (IF item.measurement_price # Null THEN item.measurement_price.v ELSE 0)
\* the Price Resolver precedence applied to a cart line
PrecedencePrice(item) ==
  IF StoredAPrice(item) THEN StoredSum(item) ELSE CatalogPrice(CatalogRowOf(item))

\* C2: a successful checkout creates exactly one order line per cart line of
\* the user, carrying the line's product id, quantity, product name and
\* variant/measurement labels, with unit price = stored variant price +
\* stored measurement price when either is present, otherwise the sale
\* price, otherwise the base price, and total_price = unit price x quantity.
C2_OneOrderLinePerCartLine ==
  [][\A t \in Tabs :
       (checkout[t].pc = "items" /\ order_items' # order_items) =>
         LET new == order_items' \ order_items
         IN  /\ Cardinality(new) = Cardinality(cartData[t])
             /\ \A item \in cartData[t] :
                  \E oi \in new :
                    /\ oi.order_id = checkout[t].order
                    /\ oi.product_id = item.product_id
                    /\ oi.quantity_litres = item.quantity_litres
                    /\ oi.product_name = CatalogRowOf(item).name
                    /\ oi.variant_selection = item.variant_selection
                    /\ oi.measurement_label = item.measurement_label
                    /\ oi.measurement_value = item.measurement_value
                    /\ oi.price_per_litre = PrecedencePrice(item)
                    /\ oi.total_price = PrecedencePrice(item) * item.quantity_litres]_vars

\* C3: once an order line exists, its product name, unit price, total price
\* and option labels are the same in every later state, whatever catalog
\* edits or cart operations happen.
C3_OrderLinesNeverChange ==
  [][\A oi \in order_items :
       \E oj \in order_items' :
         /\ oj.id = oi.id
         /\ oj.product_name = oi.product_name
         /\ oj.price_per_litre = oi.price_per_litre
         /\ oj.total_price = oi.total_price
         /\ oj.variant_selection = oi.variant_selection
         /\ oj.measurement_label = oi.measurement_label
         /\ oj.measurement_value = oi.measurement_value]_vars

\* C3 witness: after the order was placed the catalog renamed Ghee and
\* dropped the sale price of Oil, the cart line of Oil was removed and an
\* UPDATE of order_items was sent; the order lines still carry the old name
\* and price
C3_Witness ==
  /\ products["p2"].name = "Ghee Gold"
  /\ products["p1"].offer_price_per_litre = Null
  /\ \A r \in cart_items : r.user_id = "u1" => r.product_id # "p1"
  /\ resp["t1"] = "ok"
  /\ \E oi \in order_items : oi.product_id = "p2" /\ oi.product_name = "Ghee"
  /\ \E oi \in order_items : oi.product_id = "p1" /\ oi.price_per_litre = 25000

\* C9: for a cart line that stored a variant price or a measurement price
\* the unit price of the cart page and of checkout is the stored sum in
\* every state, whatever the catalog says; a line that stored neither has
\* the catalog price of its product (sale price if present, else base price).
C9_StoredPriceInsulated ==
  \A t \in Tabs : \A item \in cartData[t] :
    LET claimed == Num(PrecedencePrice(item))
    IN  /\ CheckoutUnitPrice(item) = claimed
        /\ item \in ShownItems(t) => CartUnitPrice(item) = claimed

\* C10: applying a coupon looks the code up in uppercase and checks, the
\* first failure deciding the error: no active coupon with that code ->
\* 'Invalid coupon code'; minimum order amount set and subtotal below it ->
\* minimum-order error; valid_until set and past -> 'Coupon has expired'.
\* On a failure no coupon is applied and the discount is 0; when all three
\* pass the coupon is applied.
C10_CouponChecksInOrder ==
  [][\A t \in Tabs :
       applyCouponMutation(t, "ok") =>
         LET code == toUpperCase(checkout[t].couponCode)
             found == {c \in coupons : c.code = code /\ c.is_active}
             sub == subtotal(cartData[t])
             failed(message) ==
               /\ toast'[t] = message
               /\ checkout'[t].appliedCoupon = NoCoupon
               /\ discount(checkout'[t].appliedCoupon, subtotal(cartData'[t])) = 0
         IN  IF found = {} THEN failed("Invalid coupon code")
             ELSE \A c \in found :
                    IF c.min_order_amount # Null /\ sub < c.min_order_amount.v
                    THEN failed("Minimum order amount")
                    ELSE IF c.valid_until # Null /\ c.valid_until.v < now
                    THEN failed("Coupon has expired")
                    ELSE checkout'[t].appliedCoupon = c]_vars

\* C10 witness: 'flat' was typed; coupon FLAT is past its valid_until and the
\* subtotal is below its minimum order amount; the minimum-order error is
\* shown and no coupon is applied
C10_Witness ==
  /\ checkout["t1"].couponCode = "flat"
  /\ now > 0
  /\ subtotal(cartData["t1"]) < 30000
  /\ cartData["t1"] # {}
  /\ toast["t1"] = "Minimum order amount"
  /\ checkout["t1"].appliedCoupon = NoCoupon

\* C11: a coupon becomes the applied coupon only while the current time lies
\* inside its validity window: not before valid_from and not after
\* valid_until.
C11_AppliedInsideValidityWindow ==
  [][\A t \in Tabs :
       (checkout[t].appliedCoupon = NoCoupon
        /\ checkout'[t].appliedCoupon # NoCoupon) =>
         LET c == checkout'[t].appliedCoupon
         IN  /\ c.valid_from <= now
             /\ c.valid_until # Null => now <= c.valid_until.v]_vars

\* the smaller of two numbers
Min(a, b) == IF a < b THEN a ELSE b
\* the discount the Checkout page of tab t shows
PageDiscount(t) == discount(checkout[t].appliedCoupon, subtotal(cartData[t]))

\* C12: with a coupon applied the discount is min(subtotal x discountValue /
\* 100, maxDiscountAmount) for a percentage coupon, without cap when
\* maxDiscountAmount is unset, and exactly discountValue for a fixed coupon,
\* not clamped to the subtotal.
C12_DiscountFormula ==
  \A t \in Tabs :
    LET c == checkout[t].appliedCoupon
        sub == subtotal(cartData[t])
        pct == (sub * c.discount_value) \div 100
    IN  c # NoCoupon =>
          PageDiscount(t) =
            IF c.discount_type = "percentage"
            THEN IF c.max_discount_amount # Null
                 THEN Min(pct, c.max_discount_amount.v) ELSE pct
            ELSE c.discount_value

\* C12 as the code has it: a maxDiscountAmount of 0 caps nothing, like an
\* unset one; otherwise the discount is min(subtotal x discountValue / 100,
\* maxDiscountAmount) for a percentage coupon and exactly discountValue for
\* a fixed coupon, not clamped to the subtotal.
C12_DiscountFormulaZeroCapUnset ==
  \A t \in Tabs :
    LET c == checkout[t].appliedCoupon
        sub == subtotal(cartData[t])
        pct == (sub * c.discount_value) \div 100
    IN  c # NoCoupon =>
          PageDiscount(t) =
            IF c.discount_type = "percentage"
            THEN IF c.max_discount_amount \notin {Null, Num(0)}
                 THEN Min(pct, c.max_discount_amount.v) ELSE pct
            ELSE c.discount_value

\* C12 witness: coupon FLAT (fixed 40000) is applied and the cart has shrunk
\* to a subtotal below it: the final amount is negative
C12_Witness ==
  /\ checkout["t1"].appliedCoupon.code = "FLAT"
  /\ cartData["t1"] # {}
  /\ subtotal(cartData["t1"]) < 40000
  /\ PageDiscount("t1") = 40000
  /\ subtotal(cartData["t1"]) - PageDiscount("t1") < 0

\* a step of placeOrderMutation in tab t, up to its insert into orders
PlaceOrderStep(t) == \E a \in StoreAnswers : PlaceOrder(t, a)
\* the step leaves the store as it was
StoreUnchanged ==
  /\ orders' = orders
  /\ order_items' = order_items
  /\ cart_items' = cart_items

\* C13: place-order with an empty cart (or a cart that has not been loaded)
\* ends in the reported error 'Cart is empty', and no order and no order
\* line is inserted.
C13_EmptyCartIsReported ==
  [][\A t \in Tabs :
       (cartData[t] = {} /\ PlaceOrderStep(t)) =>
         toast'[t] = "Cart is empty" /\ StoreUnchanged]_vars

\* C13 as the code has it: with an empty or unloaded cart place-order
\* inserts nothing and ends in a reported error; the error is 'Cart is
\* empty' when the address passes validation, and the address error when it
\* does not, the address being checked first.
C13_EmptyCartOrAddressIsReported ==
  [][\A t \in Tabs :
       (cartData[t] = {} /\ PlaceOrderStep(t)) =>
         /\ StoreUnchanged
         /\ toast'[t] =
              IF checkout[t].address \in {"", "Flat 2"}
              THEN "Address must be at least 10 characters"
              ELSE "Cart is empty"]_vars

\* C13 witness: the customer removed every line, entered a valid address and
\* placed the order: 'Cart is empty' is shown and no order exists
C13_Witness ==
  /\ toast["t1"] = "Cart is empty"
  /\ checkout["t1"].address = "12 Gandhi Road, Chennai"
  /\ cartData["t1"] = {}
  /\ \A r \in cart_items : r.user_id # "u1"
  /\ orders = {} /\ order_items = {}

\* C14: place-order with an address that fails validation (empty, or
\* shorter than 10 characters) ends in the reported validation error, and no
\* order and no order line is inserted.
C14_InvalidAddressIsReported ==
  [][\A t \in Tabs :
       (checkout[t].address \in {"", "Flat 2"} /\ PlaceOrderStep(t)) =>
         /\ toast'[t] = "Address must be at least 10 characters"
         /\ StoreUnchanged]_vars

\* C14 witness: with both lines loaded and the 6-character address 'Flat 2'
\* the order was refused
C14_Witness ==
  /\ toast["t1"] = "Address must be at least 10 characters"
  /\ checkout["t1"].address = "Flat 2"
  /\ Cardinality(cartData["t1"]) = 2
  /\ orders = {} /\ order_items = {}


(***************************************************************************)
(* Lifecycle of a cart line through checkout.                              *)
(***************************************************************************)

\* one customer at Checkout and on the Cart page; the requests the page has
\* started complete, the customer's own clicks are not forced
NextLife ==
  \/ \E p \in ProductIds : \E row \in CatalogEdits(p) : AdminUpdateProduct(p, row)
  \/ LoadCart("t1")
  \/ OnCartPage("t1") /\ removeItemMutation("t1", "ok")
  \/ \E a \in Addresses : setAddress("t1", a)
  \/ \E a \in StoreAnswers : PlaceOrder("t1", a)
  \/ \E a \in StoreAnswers : PlaceOrderItems("t1", a)

\* a started placeOrderMutation runs to its end and the invalidated cart
\* query refetches
FairLife ==
  /\ WF_vars(\E a \in StoreAnswers : PlaceOrderItems("t1", a))
  /\ WF_vars(LoadCart("t1"))

SpecLife == InitCheckout /\ [][NextLife]_vars /\ FairLife

\* the ids of the cart rows the store has handed out
CartRowIds == 1..(Cardinality(SeedCart) + MaxCartRows)

\* the cart row was turned into an order line
Converted(id) == \E oi \in order_items : oi.id[2] = id

\* the cart row is still in the store
InCart(id) == \E r \in cart_items : r.id = id

\* C15: a cart line that a successful checkout turned into an order line is
\* deleted, so eventually the customer's cart no longer contains it
C15_ConvertedLinesLeaveCart ==
  \A id \in CartRowIds : Converted(id) ~> ~InCart(id)


(***************************************************************************)
(* The status fields of an order.                                          *)
(***************************************************************************)

\* CHECK (status IN (...)) and CHECK (payment_status IN (...)) of orders
OrderStatuses ==
  {"pending", "confirmed", "processing", "shipped", "delivered", "cancelled"}
PaymentStatuses == {"pending", "paid", "failed", "refunded"}

\* who sends a request: has_role(auth.uid(), 'admin') or not
Roles == {"admin", "customer"}

\* row-level security of orders: SELECT and INSERT for the owner, SELECT and
\* UPDATE for an admin, nothing else
OrdersPolicy(command, role) ==
  \/ command \in {"SELECT", "INSERT"}
  \/ command = "UPDATE" /\ role = "admin"

\* UPDATE orders SET status = st, payment_status = pst WHERE id = id, sent
\* with the given role: rows the policy hides are not touched, a value outside
\* a CHECK list aborts the statement
UpdateOrder(role, id, st, pst) ==
  /\ \E o \in orders : o.id = id
  /\ orders' =
       IF OrdersPolicy("UPDATE", role) /\ st \in OrderStatuses
          /\ pst \in PaymentStatuses
       THEN {IF o.id = id THEN [o EXCEPT !.status = st, !.payment_status = pst]
             ELSE o : o \in orders}
       ELSE orders
  /\ UNCHANGED <<products, cart_items, order_items, coupons, now, cartSeq,
                 user, reviews, wishlist, card, page, cartData, checkout, toast, resp, added>>

\* a checkout that creates the order, then updates of its status fields
NextOrders ==
  \/ LoadCart("t1")
  \/ \E a \in Addresses : setAddress("t1", a)
  \/ \E text \in {"HALF", "save10"} : setCouponCode("t1", text)
  \/ applyCouponMutation("t1", "ok")
  \/ removeCoupon("t1")
  \/ \E a \in StoreAnswers : PlaceOrder("t1", a)
  \/ \E a \in StoreAnswers : PlaceOrderItems("t1", a)
  \/ \E role \in Roles : \E id \in 1..MaxOrders :
       \E st \in OrderStatuses \cup {"returned"} :
         \E pst \in PaymentStatuses \cup {"partial"} :
           UpdateOrder(role, id, st, pst)

SpecOrders == InitCheckout /\ [][NextOrders]_vars

\* pending -> confirmed -> processing -> shipped -> delivered, and cancelled
\* from any state that is not terminal
StatusStep(from, to) ==
  \/ <<from, to>> \in {<<"pending", "confirmed">>, <<"confirmed", "processing">>,
                       <<"processing", "shipped">>, <<"shipped", "delivered">>}
  \/ to = "cancelled" /\ from \notin {"delivered", "cancelled"}

\* pending -> paid or failed, paid -> refunded
PaymentStep(from, to) ==
  <<from, to>> \in {<<"pending", "paid">>, <<"pending", "failed">>,
                    <<"paid", "refunded">>}

\* C16: every change of an order's status is a step of its state machine and
\* every change of its payment status is a step of the payment machine
C16_StatusChangesFollowMachines ==
  [][\A o \in orders : \A n \in orders' :
       n.id = o.id =>
         /\ n.status # o.status => StatusStep(o.status, n.status)
         /\ n.payment_status # o.payment_status
              => PaymentStep(o.payment_status, n.payment_status)]_vars


(***************************************************************************)
(* SpecParse: the two option parsers on every raw option list.             *)
(***************************************************************************)

\* entries a raw option list may hold: null, blank, padded and plain strings,
\* JSON texts (with and without price, without label, cut short, an array,
\* not JSON at all) and objects
RawEntries ==
  { RawNull, RawText(""), RawText("  "), RawText(" 2L "), RawText("Blue"),
    RawJson("M", Undefined), RawJson("1L", Num(5000)), RawJson("1L", Str("5000")),
    RawJson("2L", Str("n/a")), RawJson("", Num(5000)), RawJson(" M ", Undefined),
    RawText("{\"label\":\"M\""), RawText(JsonArrayText), RawText("{oops"),
    RawObj("Red", "red.png", Num(10000)), RawObj(" Red ", "", Str("5000")),
    RawObj("Blue", NULL, Str("n/a")), RawObj("", NULL, Num(5000)),
    RawObj("  ", NULL, Undefined), RawObj(NULL, NULL, Undefined) }

\* the raw option lists of at most MaxLen entries
RawLists == UNION {[1..n -> RawEntries] : n \in 0..MaxLen}

\* product p2 was saved with the same raw list in variant_values and in
\* measurement_values
InitParse ==
  /\ \E raw \in RawLists :
       products = [InitialProducts EXCEPT !["p2"].variant_values = raw,
                                          !["p2"].measurement_values = raw]
  /\ cart_items = {}
  /\ orders = {}
  /\ order_items = {}
  /\ coupons = InitialCoupons
  /\ now = 0
  /\ cartSeq = 0
  /\ user = [t \in Tabs |-> "u1"]
  /\ reviews = {}
  /\ wishlist = {}
  /\ card = [t \in Tabs |-> MountedCard("p1")]
  /\ page = [t \in Tabs |-> MountedPage("p1")]
  /\ cartData = [t \in Tabs |-> {}]
  /\ checkout = [t \in Tabs |-> MountedCheckout]
  /\ toast = [t \in Tabs |-> ""]
  /\ resp = [t \in Tabs |-> ""]
  /\ added = {}

\* the page loads the product, which runs both parsers, and the customer
\* picks among the parsed options
NextParse ==
  \/ OpenProduct("t1", "p2")
  \/ \E i \in 1..MaxLen : handleSelectVariant("t1", i)
  \/ \E i \in 1..MaxLen : handleSelectMeasurement("t1", i)

SpecParse == InitParse /\ [][NextParse]_vars

\* the raw entries stored with the products
StoredEntries ==
  UNION {{products[p].variant_values[i] : i \in 1..Len(products[p].variant_values)}
           \cup {products[p].measurement_values[i] :
                   i \in 1..Len(products[p].measurement_values)} : p \in ProductIds}

\* the parser returned an option that has a label
HasLabel(o) == o # Thrown /\ o.label \notin {NULL, ""}

\* the entry is a string that opens like JSON but is cut short, is not JSON,
\* or denotes something without a label
MalformedOrLabelless(v) ==
  /\ v.kind = "text"
  /\ StartsWith(Trim(v.text), "{") \/ StartsWith(Trim(v.text), "[")
  /\ ~JsonParse(Trim(v.text)).ok \/ JsonParse(Trim(v.text)).label = ""

\* C17: on every raw entry (null, string, JSON string, object) neither parser
\* throws, each returns an option with a label or nothing, and a malformed or
\* label-less JSON string becomes the option whose label is the trimmed string
C17_ParsersNeverThrow ==
  \A v \in StoredEntries :
    /\ parseVariantOption(v) # Thrown
    /\ parseMeasurementValue(v) # Thrown
    /\ parseVariantOption(v) = NoOption \/ HasLabel(parseVariantOption(v))
    /\ parseMeasurementValue(v) = NoOption \/ HasLabel(parseMeasurementValue(v))
    /\ MalformedOrLabelless(v) =>
         /\ parseVariantOption(v) = Option(Trim(v.text), NULL, Undefined)
         /\ parseMeasurementValue(v) = Option(Trim(v.text), NULL, Undefined)

\* the page shows a product whose first measurement entry is a JSON text cut
\* short, and the parsed option with the raw text as label is selected
C17_Witness ==
  /\ page["t1"].product # NoProduct
  /\ Len(page["t1"].product.measurement_values) > 0
  /\ page["t1"].product.measurement_values[1] = RawText("{\"label\":\"M\"")
  /\ page["t1"].selectedMeasurement = Option("{\"label\":\"M\"", NULL, Undefined)
  /\ page["t1"].selectedVariant = page["t1"].selectedMeasurement


\* a parsed option handed to a parser again: it is an object with the
\* option's fields
AsRaw(o) == RawObj(o.label, o.image_url, o.price)
AsRawList(options) == [i \in 1..Len(options) |-> AsRaw(options[i])]

\* C18: parsing is idempotent: each parser, run on its own output, returns a
\* list equal to that output option by option and field by field (label,
\* image reference, price)
C18_ParsingIsIdempotent ==
  \A p \in ProductIds :
    /\ parseVariantOptions(AsRawList(parseVariantOptions(products[p].variant_values)))
         = parseVariantOptions(products[p].variant_values)
    /\ measurementValues(AsRawList(measurementValues(products[p].measurement_values)))
         = measurementValues(products[p].measurement_values)

\* C19: no option returned by either parser carries a NaN price: a raw price
\* that does not parse to a number leaves the option without a price
C19_NoNaNPrice ==
  /\ \A v \in StoredEntries :
       /\ parseVariantOption(v).price # NaN
       /\ parseMeasurementValue(v).price # NaN
  /\ \A t \in Tabs :
       /\ page[t].selectedVariant.price # NaN
       /\ page[t].selectedMeasurement.price # NaN


(***************************************************************************)
(* SpecLegacy: add-to-cart over a cart line whose measurement value is     *)
(* stored as JSON text.                                                    *)
(***************************************************************************)

\* the measurement the Cart page shows for a stored measurement_value: "may
\* be a JSON string like '{"label":"M","price":100}'", reduced to its label
DisplayedMeasurement(value) ==
  IF value = NULL THEN NULL
  ELSE LET trimmed == Trim(value)
           parsed == JsonParse(trimmed)
       IN  IF (StartsWith(trimmed, "{") \/ StartsWith(trimmed, "["))
              /\ Includes(trimmed, "label") /\ parsed.ok /\ parsed.label # ""
           THEN parsed.label ELSE value

\* Ghee is sold in the sizes M and 2L
LegacyProducts ==
  [InitialProducts EXCEPT !["p2"].measurement_values = <<RawText("M"), RawText("2L")>>]

\* u1's cart holds one line of Ghee Red in size M whose measurement_value is
\* the JSON text {"label":"M"}
LegacyCart ==
  LET ghee == LegacyProducts["p2"]
      red == parseVariantOptions(ghee.variant_values)[1]
      m == measurementValues(ghee.measurement_values)[1]
  IN  { [NewCartRow(1, "u1", LoadedPage("p2", ghee, red, m, 1))
           EXCEPT !.measurement_value = JsonText("M", Undefined)] }

InitLegacy ==
  /\ products = LegacyProducts
  /\ cart_items = LegacyCart
  /\ orders = {}
  /\ order_items = {}
  /\ coupons = InitialCoupons
  /\ now = 0
  /\ cartSeq = Cardinality(LegacyCart)
  /\ user = [t \in Tabs |-> "u1"]
  /\ reviews = {}
  /\ wishlist = {}
  /\ card = [t \in Tabs |-> MountedCard("p1")]
  /\ page = [t \in Tabs |-> MountedPage("p1")]
  /\ cartData = [t \in Tabs |-> {}]
  /\ checkout = [t \in Tabs |-> MountedCheckout]
  /\ toast = [t \in Tabs |-> ""]
  /\ resp = [t \in Tabs |-> ""]
  /\ added = {}

SpecLegacy == InitLegacy /\ [][NextSeq]_vars

\* C20: the matcher reduces a stored measurement value to its bare label,
\* whether it is stored as the label or as JSON text holding the label: an
\* add-to-cart whose candidate has the variant label and the (reduced)
\* measurement label of an existing line increments that line and inserts
\* nothing
C20_JsonStoredMeasurementMatches ==
  [][AddToCartWrite("t1", "ok") =>
       \A r \in page["t1"].existing :
         (/\ VariantLabel(r) = page["t1"].selectedVariant.label
          /\ DisplayedMeasurement(r.measurement_value)
               = page["t1"].selectedMeasurement.label)
         => /\ cartSeq' = cartSeq
            /\ \E n \in cart_items' :
                 /\ n.id = r.id
                 /\ n.quantity_litres = r.quantity_litres + page["t1"].quantity]_vars


\* the label is not empty and has no white space at either end
CleanLabel(l) == l \notin {NULL, ""} /\ Trim(l) = l

\* the entry is a string or an object whose label is empty or only white
\* space
BlankEntry(v) ==
  \/ v.kind = "text" /\ Trim(v.text) = ""
  \/ v.kind = "obj" /\ (v.label = NULL \/ Trim(v.label) = "")

\* C21: every option either parser returns has a non-empty label without
\* leading or trailing white space, and an entry whose label is empty or only
\* white space is dropped
C21_LabelsAreTrimmed ==
  \A v \in StoredEntries :
    /\ parseVariantOption(v) # NoOption => CleanLabel(parseVariantOption(v).label)
    /\ parseMeasurementValue(v) # NoOption => CleanLabel(parseMeasurementValue(v).label)
    /\ BlankEntry(v) =>
         parseVariantOption(v) = NoOption /\ parseMeasurementValue(v) = NoOption


(***************************************************************************)
(* SpecSelect: add-to-cart on a page whose product data is refetched while *)
(* an admin edits the product.                                             *)
(***************************************************************************)
\* the rows the admin saves in this scenario: Ghee with or without its sale
\* price and with its variants switched on or off
SelectEdits ==
  {r \in ProductVersions("p2") :
     /\ r.name = "Ghee"
     /\ r.offer_price_per_litre \in {Null, Num(15000)}
     /\ r.variant_values = InitialProducts["p2"].variant_values
     /\ r.measurement_values = InitialProducts["p2"].measurement_values}

NextSelect ==
  \/ \E row \in SelectEdits : AdminUpdateProduct("p2", row)
  \/ OpenProduct("t1", "p2")
  \/ RefetchProduct("t1")
  \/ \E i \in 1..3 : handleSelectVariant("t1", i)
  \/ \E i \in 1..3 : handleSelectMeasurement("t1", i)
  \/ AddToCartRead("t1", "ok")
  \/ AddToCartWrite("t1", "ok")

SpecSelect == Init /\ [][NextSelect]_vars

\* C22: add-to-cart issued while a required variant or measurement is not
\* selected ends in a reported validation error and leaves the cart lines
\* unchanged: no read, update or insert follows
C22_MissingSelectionIsReported ==
  [][(AddToCartRead("t1", "ok") /\ selectionMissing(page["t1"]))
       => /\ toast'["t1"] = "Please select"
          /\ page'["t1"].pc = "idle"
          /\ cart_items' = cart_items]_vars

\* the page reported the missing selection over a cart that holds a line
C22_Witness ==
  /\ toast["t1"] = "Please select"
  /\ selectionMissing(page["t1"])
  /\ page["t1"].pc = "idle"
  /\ cart_items # {}


(***************************************************************************)
(* SpecWishlist: product cards in two tabs toggling the wishlist.          *)
(***************************************************************************)
NextWishlist ==
  \/ \E t \in Tabs : \E p \in ProductIds : ShowCard(t, p)
  \/ \E t \in Tabs : WishlistClick(t)
  \/ \E t \in Tabs : \E a \in StoreAnswers : WishlistAnswer(t, a)

SpecWishlist == Init /\ [][NextWishlist]_vars

\* the indicator of the card in tab t agrees with the store row
CardAgrees(t) ==
  card[t].isWishlisted = (WishlistRow(user[t], card[t].product) \in wishlist)

NextReview ==
  \/ \E t \in Tabs : \E p \in ProductIds : OpenProduct(t, p)
  \/ \E t \in Tabs : \E rating \in Ratings : \E comment \in Comments :
       \E a \in StoreAnswers : addReviewMutation(t, rating, comment, a)
  \/ \E t \in Tabs : \E a \in StoreAnswers : deleteReviewMutation(t, a)

SpecReview == Init /\ [][NextReview]_vars

\* the customer of tab t already has a review of the product shown
AlreadyReviewed(t) ==
  \E r \in reviews : r.product_id = page[t].id /\ r.user_id = user[t]

\* C24: a user has at most one review per product: a second submission by
\* the same user for the same product stores no second row and is answered
\* with 'You already reviewed this product', not with 'Review added'
C24_SecondReviewIsRefused ==
  [][\A t \in Tabs : \A rating \in Ratings \ {0} : \A a \in StoreAnswers :
       (addReviewMutation(t, rating, "Good oil", a) /\ AlreadyReviewed(t))
         => /\ reviews' = reviews
            /\ toast'[t] = "You already reviewed this product"]_vars


\* the order is the one a placeOrderMutation still running is about to give
\* its lines
BeingPlaced(o) == \E t \in Tabs : checkout[t].pc = "items" /\ checkout[t].order = o.id

\* C25: every order in the store has at least one order line: order creation
\* is all-or-nothing, so once placeOrderMutation has ended, with or without
\* an error, no order row without lines remains
C25_NoOrderWithoutLines ==
  \A o \in orders : ~BeingPlaced(o) => LinesOfOrder(o) # {}


(***************************************************************************)
(* SpecStale: a coupon is applied at Checkout, then the cart is edited in  *)
(* a second tab or time passes before the order is placed.                 *)
(***************************************************************************)
NextStale ==
  \/ \E t \in Tabs : LoadCart(t)
  \/ CartMinus("t2", "ok")
  \/ removeItemMutation("t2", "ok")
  \/ \E text \in {"HALF", "save10"} : setCouponCode("t1", text)
  \/ applyCouponMutation("t1", "ok")
  \/ setAddress("t1", "12 Gandhi Road, Chennai")
  \/ PlaceOrder("t1", "ok")
  \/ PlaceOrderItems("t1", "ok")
  \/ Tick

SpecStale == InitCheckout /\ [][NextStale]_vars

\* the coupons row with the given code
CouponRow(code) == CHOOSE c \in coupons : c.code = code

\* C26: every order stored with a coupon code satisfied the coupon's
\* constraints at the moment it was created: the coupon is active, the order's
\* subtotal is at least its min_order_amount and valid_until has not passed
C26_CouponHoldsAtOrderCreation ==
  [][\A o \in orders' \ orders :
       o.coupon_code # NULL =>
         /\ CouponRow(o.coupon_code).is_active
         /\ Truthy(CouponRow(o.coupon_code).min_order_amount)
              => o.total_amount >= CouponRow(o.coupon_code).min_order_amount.v
         /\ CouponRow(o.coupon_code).valid_until # Null
              => now <= CouponRow(o.coupon_code).valid_until.v]_vars


(***************************************************************************)
(* SpecPrice: add-to-cart for every saved version of Ghee, the catalog     *)
(* staying as it is.                                                       *)
(***************************************************************************)
\* the catalog holds Ghee in one of its versions with variants switched on
InitPrice ==
  /\ \E row \in {r \in ProductVersions("p2") :
                   /\ r.name = "Ghee" /\ r.variant_enabled
                   /\ r.offer_price_per_litre \in {Null, Num(15000)}} :
       products = [InitialProducts EXCEPT !["p2"] = row]
  /\ cart_items = {}
  /\ orders = {}
  /\ order_items = {}
  /\ coupons = InitialCoupons
  /\ now = 0
  /\ cartSeq = 0
  /\ user = [t \in Tabs |-> "u1"]
  /\ reviews = {}
  /\ wishlist = {}
  /\ card = [t \in Tabs |-> MountedCard("p1")]
  /\ page = [t \in Tabs |-> MountedPage("p1")]
  /\ cartData = [t \in Tabs |-> {}]
  /\ checkout = [t \in Tabs |-> MountedCheckout]
  /\ toast = [t \in Tabs |-> ""]
  /\ resp = [t \in Tabs |-> ""]
  /\ added = {}

SpecPrice == InitPrice /\ [][NextSeq]_vars

\* the rows an add-to-cart step inserted
InsertedRows == {r \in cart_items' : r.id \notin {x.id : x \in cart_items}}

\* C27: the unit price the product page shows when add-to-cart inserts a new
\* line equals the unit price the Cart page and Checkout compute for that
\* line over the same catalog, selections with a price of 0 included
C27_PagePriceIsCartPrice ==
  [][AddToCartWrite("t1", "ok") =>
       \A r \in InsertedRows :
         /\ CartUnitPrice(JoinedRow(r)) = ShownPrice("t1")
         /\ CheckoutUnitPrice(JoinedRow(r)) = ShownPrice("t1")]_vars


(***************************************************************************)
(* SpecHidden: the cart of a customer while an admin switches products on  *)
(* and off.                                                                *)
(***************************************************************************)
NextHidden ==
  \/ \E p \in ProductIds :
       AdminUpdateProduct(p, [products[p] EXCEPT !.is_active = ~products[p].is_active])
  \/ LoadCart("t1")
  \/ CartMinus("t1", "ok")
  \/ CartPlus("t1", "ok")
  \/ removeItemMutation("t1", "ok")
  \/ setAddress("t1", "12 Gandhi Road, Chennai")
  \/ PlaceOrder("t1", "ok")
  \/ PlaceOrderItems("t1", "ok")

SpecHidden == InitCheckout /\ [][NextHidden]_vars

\* C28: for the cart rows the cart query delivered, the total of the Cart
\* page equals the subtotal of Checkout, rows whose joined product record is
\* missing included, and an order is stored with that amount
C28_CartTotalIsCheckoutSubtotal ==
  /\ \A t \in Tabs : total(cartData[t]) = subtotal(cartData[t])
  /\ \A t \in Tabs : \A o \in orders :
       BeingPlaced(o) /\ checkout[t].order = o.id
         => o.total_amount = total(cartData[t])


\* the rows read by the add-to-cart of tab t that its matcher picks
MatchedRows(t) ==
  {r \in page[t].existing :
     CartLineMatches(r, page[t].selectedVariant, page[t].selectedMeasurement)}

\* C29: when two add-to-cart operations of the same user for the same
\* combination interleave on an existing line, no increment is lost: the
\* write of each adds its requested amount to the quantity the line has in
\* the store at that moment
C29_NoLostIncrement ==
  [][\A t \in Tabs :
       (AddToCartWrite(t, "ok") /\ MatchedRows(t) # {}) =>
         \E m \in MatchedRows(t) : \E r \in cart_items : \E n \in cart_items' :
           /\ r.id = m.id
           /\ n.id = m.id
           /\ n.quantity_litres = r.quantity_litres + page[t].quantity]_vars

(***************************************************************************)
(* SpecQty: the product page in tab t1 and the Cart page in tab t2 of one  *)
(* user, with every quantity control of both pages.                        *)
(***************************************************************************)
\* the add-to-cart operations per line key the history `added` may count
MaxAdds == 2

NextQty ==
  \/ \E p \in ProductIds : OpenProduct("t1", p)
  \/ QuantityMinus("t1")
  \/ QuantityPlus("t1")
  \/ \E s \in TypedTexts : QuantityType("t1", s)
  \/ (\A e \in added : e.adds < MaxAdds) /\ AddToCartRead("t1", "ok")
  \/ \E a \in StoreAnswers : AddToCartWrite("t1", a)
  \/ LoadCart("t2")
  \/ \E a \in StoreAnswers : CartMinus("t2", a)
  \/ \E a \in StoreAnswers : CartPlus("t2", a)
  \/ \E s \in TypedTexts : \E a \in StoreAnswers : CartType("t2", s, a)

SpecQty == Init /\ [][NextQty]_vars

\* every stored cart line has a quantity of at least 1
QuantitiesAtLeastOne(rows) == \A r \in rows : r.quantity_litres >= 1

\* C30: in every state reached through add-to-cart, merge, plus, minus and
\* typed quantity every cart line has a quantity of at least 1, and the
\* minus button of the Cart page deletes no line and leaves a line of
\* quantity 1 at 1
C30_QuantityAtLeastOne ==
  [][/\ QuantitiesAtLeastOne(cart_items)
     /\ QuantitiesAtLeastOne(cart_items')
     /\ \A a \in StoreAnswers :
          CartMinus("t2", a) =>
            /\ {r.id : r \in cart_items'} = {r.id : r \in cart_items}
            /\ \A r \in cart_items : \A n \in cart_items' :
                 (r.id = n.id /\ r.quantity_litres = 1) => n.quantity_litres = 1]_vars

\* the Cart page shows a line at quantity 1 after a cart mutation succeeded
\* on a line that was added once, with a larger quantity
C30_Witness ==
  /\ resp["t2"] = "ok"
  /\ \E item \in ShownItems("t2") : \E r \in cart_items : \E e \in added :
       /\ r.id = item.id
       /\ item.quantity_litres = 1
       /\ r.quantity_litres = 1
       /\ e.key = KeyOfRow(r)
       /\ e.adds = 1
       /\ e.quantity > 1

====
